---- MODULE Spec2Model ----
(***************************************************************************)
(* Model of the arrivals handler of src/api/arrivals.js (the latest of the *)
(* handlers in that file, lines 585-985): query parsing, station           *)
(* resolution, time resolution (getTimes), the merge loop over the         *)
(* settled feed results, sortAndTrim and the JSON response.                *)
(*                                                                         *)
(* JavaScript strings are sequences of one-character strings, so that      *)
(* split, trim, toLowerCase, the regular expressions and the suffix tests  *)
(* are computed and not assumed.  null/undefined is the empty sequence     *)
(* None, a present value v is Some(v) = <<v>>.                             *)
(***************************************************************************)
EXTENDS Integers, Sequences, FiniteSets, TLC

VARIABLES
  req,          \* the request: method and raw query parameters
  now,          \* Math.floor(Date.now() / 1000) of this request
  pc,           \* position of the handler
  q,            \* parseQuery(req)
  resolved,     \* resolveStops(q.stationRaw, q.stopIdsParam)
  results,      \* per feed: "idle", "pending", "ok" or "failed"
  loop,         \* position of the merge loop
  stats,        \* the counters of the run
  sampleSet,    \* Set of stop ids (debug)
  matchedNoTimeSet,
  matchedNoTimeDetails,
  stationsObj,  \* station name -> route -> list of entries
  response,     \* the response sent, None before
  arg,          \* input of a function applied on its own
  ret           \* its result

vars == <<req, now, pc, q, resolved, results, loop, stats, sampleSet,
          matchedNoTimeSet, matchedNoTimeDetails, stationsObj, response, arg, ret>>

----------------------------------------------------------------------------
(* Optional values *)

None == <<>>
Some(v) == <<v>>
IsSome(o) == o # <<>>
Val(o) == o[1]

Max(a, b) == IF a >= b THEN a ELSE b
Min(a, b) == IF a <= b THEN a ELSE b

----------------------------------------------------------------------------
(* Strings as sequences of characters *)

UpperChars == <<"A","B","C","D","E","F","G","H","I","J","K","L","M",
                "N","O","P","Q","R","S","T","U","V","W","X","Y","Z">>
LowerChars == <<"a","b","c","d","e","f","g","h","i","j","k","l","m",
                "n","o","p","q","r","s","t","u","v","w","x","y","z">>
DigitChars == <<"0","1","2","3","4","5","6","7","8","9">>

InSeq(c, s) == \E i \in 1..Len(s) : s[i] = c
IndexOf(c, s) == CHOOSE i \in 1..Len(s) : s[i] = c

\* String.prototype.toLowerCase / toUpperCase, one character
LowerChar(c) == IF InSeq(c, UpperChars) THEN LowerChars[IndexOf(c, UpperChars)] ELSE c
UpperChar(c) == IF InSeq(c, LowerChars) THEN UpperChars[IndexOf(c, LowerChars)] ELSE c
toLowerCase(s) == [i \in 1..Len(s) |-> LowerChar(s[i])]
toUpperCase(s) == [i \in 1..Len(s) |-> UpperChar(s[i])]

\* \s of a regular expression, and \w
IsSpace(c) == c \in {" ", "\t"}
IsWord(c) == InSeq(c, UpperChars) \/ InSeq(c, LowerChars) \/ InSeq(c, DigitChars) \/ c = "_"

RECURSIVE trimStart(_)
trimStart(s) == IF s # <<>> /\ IsSpace(Head(s)) THEN trimStart(Tail(s)) ELSE s
RECURSIVE trimEnd(_)
trimEnd(s) == IF s # <<>> /\ IsSpace(s[Len(s)]) THEN trimEnd(SubSeq(s, 1, Len(s) - 1)) ELSE s
\* String.prototype.trim
trim(s) == trimEnd(trimStart(s))

StartsWith(s, p) == Len(s) >= Len(p) /\ SubSeq(s, 1, Len(p)) = p
endsWith(s, c) == s # <<>> /\ s[Len(s)] = c

\* s.split(","): the pieces between the commas, empty pieces kept
RECURSIVE splitAcc(_, _)
splitAcc(s, cur) ==
  IF s = <<>> THEN <<cur>>
  ELSE IF Head(s) = "," THEN <<cur>> \o splitAcc(Tail(s), <<>>)
  ELSE splitAcc(Tail(s), Append(cur, Head(s)))
split(s) == splitAcc(s, <<>>)

\* .map(s => s.trim()).filter(Boolean)
RECURSIVE trimAndFilter(_)
trimAndFilter(parts) ==
  IF parts = <<>> THEN <<>>
  ELSE LET t == trim(Head(parts))
       IN  (IF t = <<>> THEN <<>> ELSE <<t>>) \o trimAndFilter(Tail(parts))

\* s.replace(/street\b/g, "st")
street == <<"s","t","r","e","e","t">>
RECURSIVE replaceStreet(_)
replaceStreet(s) ==
  IF s = <<>> THEN <<>>
  ELSE IF StartsWith(s, street) /\ (Len(s) = 6 \/ ~IsWord(s[7]))
       THEN <<"s","t">> \o replaceStreet(SubSeq(s, 7, Len(s)))
       ELSE <<Head(s)>> \o replaceStreet(Tail(s))

\* s.replace(/\s+/g, " ")
RECURSIVE collapseSpaces(_)
collapseSpaces(s) ==
  IF s = <<>> THEN <<>>
  ELSE IF IsSpace(Head(s))
       THEN <<" ">> \o collapseSpaces(trimStart(s))
       ELSE <<Head(s)>> \o collapseSpaces(Tail(s))

\* a variant of norm that leaves the word street as it is
norm_KeepStreet(s) == trim(collapseSpaces(toLowerCase(s)))

\* norm = s => (s || "").toLowerCase().replace(/street\b/g, "st").replace(/\s+/g, " ").trim()
norm(s) == trim(collapseSpaces(replaceStreet(toLowerCase(s))))

\* a variant of dirFromStopId that takes a stop id without a suffix for northbound
dirFromStopId_DefaultN(sid) ==
  IF sid # <<>> /\ sid[Len(sid)] = "S" THEN <<"S">> ELSE <<"N">>

\* dirFromStopId = sid => (sid && /[NS]$/.test(sid) ? sid.slice(-1) : null)
dirFromStopId(sid) ==
  IF sid # <<>> /\ (endsWith(sid, "N") \/ endsWith(sid, "S")) THEN <<sid[Len(sid)]>> ELSE None

\* baseOf = sid => (sid && (sid.endsWith("N") || sid.endsWith("S"))) ? sid.slice(0, -1) : sid
baseOf(sid) ==
  IF sid # <<>> /\ (endsWith(sid, "N") \/ endsWith(sid, "S"))
  THEN SubSeq(sid, 1, Len(sid) - 1) ELSE sid

----------------------------------------------------------------------------
(* Constants of the program *)

EPOCH_GUESS_THRESHOLD == 1104537600
TREAT_DELAY_AS_EPOCH == TRUE

\* String literals used below
sHighSt == <<"H","i","g","h"," ","S","t">>
sClarkSt == <<"C","l","a","r","k"," ","S","t">>
sClarkStreetLoose == <<"c","l","a","r","k"," "," ","s","t","r","e","e","t">>
sBogus == <<"B","o","g","u","s">>
sUnknown == <<"U","n","k","n","o","w","n">>
sBOTH == <<"B","O","T","H">>
sA40 == <<"A","4","0">>
s231 == <<"2","3","1">>
sA40N == <<"A","4","0","N">>
sA40S == <<"A","4","0","S">>
s231N == <<"2","3","1","N">>
s231S == <<"2","3","1","S">>
sR01N == <<"R","0","1","N">>
sComma == <<",">>
sQuestion == <<"?">>

\* A sample of the name -> base stop_id[] index file (the shape written by
\* src/data/build_stop_name_to_ids.js), as a list of [key, value] entries.
stationIndexRaw ==
  << <<sHighSt, <<sA40>> >>,
     <<sClarkSt, <<s231>> >> >>

\* STATION_INDEX.get(key) of the Map built from the entries with norm(k) as
\* key: the last entry with that key wins; None when there is none.
STATION_INDEX_get(key) ==
  LET hits == {i \in 1..Len(stationIndexRaw) : norm(stationIndexRaw[i][1]) = key}
  IN  IF hits = {} THEN None
      ELSE Some(stationIndexRaw[CHOOSE i \in hits : \A j \in hits : j <= i][2])

----------------------------------------------------------------------------
(* parseQuery *)

\* num = (k, d) => Number(qp(k) ?? d), for parameters that hold an integer
num(p, d) == IF IsSome(p) THEN Val(p) ELSE d

\* routesParam.split(",").map(trim).filter(Boolean).map(toUpperCase)
RECURSIVE mapUpper(_)
mapUpper(parts) ==
  IF parts = <<>> THEN <<>> ELSE <<toUpperCase(Head(parts))>> \o mapUpper(Tail(parts))

parseQuery(r) ==
  [ stationRaw      |-> r.station,
    stopIdsParam    |-> r.stop_ids,
    routesFilter    |-> IF IsSome(r.routes) /\ Val(r.routes) # <<>>
                        THEN Some(mapUpper(trimAndFilter(split(Val(r.routes)))))
                        ELSE None,
    maxPerRoute     |-> Max(1, Min(10, num(r.max_per_route, 5))),
    lookbackSeconds |-> num(r.lookback_seconds, 0),
    showDebug       |-> r.show_debug,
    rawDump         |-> r.raw_dump,
    format          |-> r.format,
    speechLimit     |-> Max(1, num(r.speech_limit, 2)),
    routeDirection  |-> toUpperCase(IF IsSome(r.route_direction) /\ Val(r.route_direction) # <<>>
                                    THEN Val(r.route_direction) ELSE sBOTH) ]

----------------------------------------------------------------------------
(* resolveStops *)

\* Set.prototype.add on a Set kept in insertion order
setAdd(set, x) == IF InSeq(x, set) THEN set ELSE Append(set, x)
\* Map.prototype.set / get
mapSet(m, k, v) == [x \in (DOMAIN m) \cup {k} |-> IF x = k THEN v ELSE m[x]]
mapGet(m, k) == IF k \in DOMAIN m THEN Some(m[k]) ELSE None

\* a variant that keeps the first name a base id was given
RECURSIVE addMapped_KeepFirst(_, _, _)
addMapped_KeepFirst(acc, mapped, name) ==
  IF mapped = <<>> THEN acc
  ELSE addMapped_KeepFirst(
         [acc EXCEPT !.stopIdsSet = setAdd(@, Head(mapped)),
                     !.baseToStation = IF Head(mapped) \in DOMAIN @ THEN @
                                       ELSE mapSet(@, Head(mapped), name)],
         Tail(mapped), name)

\* for (const id of mapped) { stopIdsSet.add(id); baseToStation.set(id, name); }
RECURSIVE addMapped(_, _, _)
addMapped(acc, mapped, name) ==
  IF mapped = <<>> THEN acc
  ELSE addMapped([acc EXCEPT !.stopIdsSet = setAdd(@, Head(mapped)),
                             !.baseToStation = mapSet(@, Head(mapped), name)],
                 Tail(mapped), name)

\* a variant of the loop that gives up at the first name the index does not have
RECURSIVE resolveNames_StopAtUnknown(_, _)
resolveNames_StopAtUnknown(acc, names) ==
  IF names = <<>> THEN acc
  ELSE LET name == Head(names)
           mapped == STATION_INDEX_get(norm(name))
       IN  IF IsSome(mapped) /\ Val(mapped) # <<>>
           THEN resolveNames_StopAtUnknown(
                  addMapped([acc EXCEPT !.stationsResolved = Append(@, name)], Val(mapped), name),
                  Tail(names))
           ELSE [acc EXCEPT !.unknownStations = Append(@, name)]

\* the loop over the station names
RECURSIVE resolveNames(_, _)
resolveNames(acc, names) ==
  IF names = <<>> THEN acc
  ELSE LET name == Head(names)
           mapped == STATION_INDEX_get(norm(name))
       IN  IF IsSome(mapped) /\ Val(mapped) # <<>>
           THEN resolveNames(addMapped([acc EXCEPT !.stationsResolved = Append(@, name)],
                                       Val(mapped), name),
                             Tail(names))
           ELSE resolveNames([acc EXCEPT !.unknownStations = Append(@, name)], Tail(names))

\* the loop over the stop ids given directly
RECURSIVE addStopIds(_, _)
addStopIds(acc, ids) ==
  IF ids = <<>> THEN acc
  ELSE addStopIds([acc EXCEPT !.stopIdsSet = setAdd(@, Head(ids))], Tail(ids))

resolveStops(stationRaw, stopIdsParam) ==
  LET empty == [stationsResolved |-> <<>>, unknownStations |-> <<>>,
                stopIdsSet |-> <<>>, baseToStation |-> <<>>]
      byName == IF IsSome(stationRaw) /\ Val(stationRaw) # <<>>
                THEN resolveNames(empty, trimAndFilter(split(Val(stationRaw))))
                ELSE empty
  IN  IF IsSome(stopIdsParam) /\ Val(stopIdsParam) # <<>>
      THEN addStopIds(byName, trimAndFilter(split(Val(stopIdsParam))))
      ELSE byName

----------------------------------------------------------------------------
(* getTimes *)

\* x?.time ?? null and x?.delay ?? null of an optional Event
timeOf(ev) == IF IsSome(ev) THEN Val(ev).time ELSE None
delayOf(ev) == IF IsSome(ev) THEN Val(ev).delay ELSE None

\* truthiness of an optional number
Truthy(o) == IsSome(o) /\ Val(o) # 0

\* a variant of the search that takes the threshold itself, and the value below it,
\* for an epoch
RECURSIVE findEpochLike_Loose(_)
findEpochLike_Loose(candidates) ==
  IF candidates = <<>> THEN None
  ELSE IF Head(candidates) >= EPOCH_GUESS_THRESHOLD - 1 THEN Some(Head(candidates))
  ELSE findEpochLike_Loose(Tail(candidates))

\* candidates.find(v => Number(v) > EPOCH_GUESS_THRESHOLD)
RECURSIVE findEpochLike(_)
findEpochLike(candidates) ==
  IF candidates = <<>> THEN None
  ELSE IF Head(candidates) > EPOCH_GUESS_THRESHOLD THEN Some(Head(candidates))
  ELSE findEpochLike(Tail(candidates))

\* a variant of getTimes that looks at the delay fields before the absolute times
getTimes_DelayFirst(stu) ==
  LET aTime == timeOf(stu.arrival)
      dTime == timeOf(stu.departure)
      aDelay == delayOf(stu.arrival)
      dDelay == delayOf(stu.departure)
      epochLike == findEpochLike(aDelay \o dDelay)
      ts == IF Truthy(epochLike) THEN Val(epochLike)
            ELSE IF Truthy(aTime) THEN Val(aTime) ELSE IF Truthy(dTime) THEN Val(dTime) ELSE 0
  IN  [ ts |-> IF ts # 0 THEN Some(ts) ELSE None,
        usedDelayAsTime |-> Truthy(epochLike),
        delaySeconds |-> IF IsSome(aDelay) THEN aDelay ELSE dDelay,
        aTime |-> aTime, dTime |-> dTime, aDelay |-> aDelay, dDelay |-> dDelay ]

\* a variant of getTimes that never reports the use of a delay
getTimes_NoFlag(stu) ==
  LET aTime == timeOf(stu.arrival)
      dTime == timeOf(stu.departure)
      aDelay == delayOf(stu.arrival)
      dDelay == delayOf(stu.departure)
      ts0 == IF Truthy(aTime) THEN Val(aTime) ELSE IF Truthy(dTime) THEN Val(dTime) ELSE 0
      epochLike == IF ts0 = 0 THEN findEpochLike(aDelay \o dDelay) ELSE None
      ts == IF Truthy(epochLike) THEN Val(epochLike) ELSE ts0
  IN  [ ts |-> IF ts # 0 THEN Some(ts) ELSE None,
        usedDelayAsTime |-> FALSE,
        delaySeconds |-> IF IsSome(aDelay) THEN aDelay ELSE dDelay,
        aTime |-> aTime, dTime |-> dTime, aDelay |-> aDelay, dDelay |-> dDelay ]

\* a variant of getTimes with delaySeconds = aDelay || dDelay || null
getTimes_DelayOr(stu) ==
  LET aTime == timeOf(stu.arrival)
      dTime == timeOf(stu.departure)
      aDelay == delayOf(stu.arrival)
      dDelay == delayOf(stu.departure)
      ts0 == IF Truthy(aTime) THEN Val(aTime) ELSE IF Truthy(dTime) THEN Val(dTime) ELSE 0
      epochLike == IF ts0 = 0 THEN findEpochLike(aDelay \o dDelay) ELSE None
      ts == IF Truthy(epochLike) THEN Val(epochLike) ELSE ts0
  IN  [ ts |-> IF ts # 0 THEN Some(ts) ELSE None,
        usedDelayAsTime |-> Truthy(epochLike),
        delaySeconds |-> IF Truthy(aDelay) THEN aDelay ELSE IF Truthy(dDelay) THEN dDelay ELSE None,
        aTime |-> aTime, dTime |-> dTime, aDelay |-> aDelay, dDelay |-> dDelay ]

getTimes(stu) ==
  LET aTime == timeOf(stu.arrival)
      dTime == timeOf(stu.departure)
      aDelay == delayOf(stu.arrival)
      dDelay == delayOf(stu.departure)
      ts0 == IF Truthy(aTime) THEN Val(aTime) ELSE IF Truthy(dTime) THEN Val(dTime) ELSE 0
      candidates == aDelay \o dDelay
      epochLike == IF ts0 = 0 /\ TREAT_DELAY_AS_EPOCH THEN findEpochLike(candidates) ELSE None
      ts == IF Truthy(epochLike) THEN Val(epochLike) ELSE ts0
  IN  [ ts |-> IF ts # 0 THEN Some(ts) ELSE None,
        usedDelayAsTime |-> Truthy(epochLike),
        delaySeconds |-> IF IsSome(aDelay) THEN aDelay ELSE dDelay,
        aTime |-> aTime, dTime |-> dTime, aDelay |-> aDelay, dDelay |-> dDelay ]

----------------------------------------------------------------------------
(* pushArrival and sortAndTrim *)

\* sid?.replace(/[NS]$/, "") || sid
stripDir(sid) ==
  LET r == IF sid # <<>> /\ sid[Len(sid)] \in {"N", "S"} THEN SubSeq(sid, 1, Len(sid) - 1) ELSE sid
  IN  IF r # <<>> THEN r ELSE sid

\* a variant with Math.round in place of Math.floor
inMin_Round(ts, t) == Max(0, (ts - t + 30) \div 60)

\* Math.max(0, Math.floor((ts - now) / 60))
inMin(ts, t) == Max(0, (ts - t) \div 60)

\* (obj[key] ??= dflt) followed by a change of that slot
objGet(o, k, dflt) == IF k \in DOMAIN o THEN o[k] ELSE dflt

\* a variant that leaves out a record whose stop id and epoch are those of an
\* entry of the group
pushArrival_Dedup(sObj, baseToStation, sid, route, t, ts, extra) ==
  LET base == stripDir(sid)
      hit == mapGet(baseToStation, base)
      stationName == IF IsSome(hit) /\ Val(hit) # <<>> THEN Val(hit) ELSE sUnknown
      s == objGet(sObj, stationName, <<>>)
      r == objGet(s, route, <<>>)
      entry == [ stop_id |-> sid,
                 route |-> route,
                 direction |-> dirFromStopId(sid),
                 arrival_epoch |-> ts,
                 in_min |-> IF ts = None THEN None ELSE Some(inMin(Val(ts), t)),
                 status |-> extra.status,
                 delay_seconds |-> extra.delay_seconds,
                 used_delay_as_time |-> extra.used_delay_as_time,
                 origin |-> extra.origin ]
  IN  IF \E i \in 1..Len(r) : r[i].stop_id = sid /\ r[i].arrival_epoch = ts
      THEN mapSet(sObj, stationName, mapSet(s, route, r))
      ELSE mapSet(sObj, stationName, mapSet(s, route, Append(r, entry)))

pushArrival(sObj, baseToStation, sid, route, t, ts, extra) ==
  LET base == stripDir(sid)
      hit == mapGet(baseToStation, base)
      stationName == IF IsSome(hit) /\ Val(hit) # <<>> THEN Val(hit) ELSE sUnknown
      s == objGet(sObj, stationName, <<>>)
      r == objGet(s, route, <<>>)
      entry == [ stop_id |-> sid,
                 route |-> route,
                 direction |-> dirFromStopId(sid),
                 arrival_epoch |-> ts,
                 in_min |-> IF ts = None THEN None ELSE Some(inMin(Val(ts), t)),
                 status |-> extra.status,
                 delay_seconds |-> extra.delay_seconds,
                 used_delay_as_time |-> extra.used_delay_as_time,
                 origin |-> extra.origin ]
  IN  mapSet(sObj, stationName, mapSet(s, route, Append(r, entry)))

\* the comparator (a.arrival_epoch ?? Infinity) - (b.arrival_epoch ?? Infinity) < 0;
\* Infinity - Infinity is NaN, which sort takes as 0
before(a, b) ==
  /\ IsSome(a.arrival_epoch)
  /\ (IsSome(b.arrival_epoch) => Val(a.arrival_epoch) < Val(b.arrival_epoch))

\* Array.prototype.sort is stable: x goes in front of the first element it is before
RECURSIVE insertSorted(_, _)
insertSorted(sorted, x) ==
  IF sorted = <<>> THEN <<x>>
  ELSE IF before(x, Head(sorted)) THEN <<x>> \o sorted
  ELSE <<Head(sorted)>> \o insertSorted(Tail(sorted), x)

RECURSIVE sortArrs(_)
sortArrs(arrs) ==
  IF arrs = <<>> THEN <<>>
  ELSE insertSorted(sortArrs(SubSeq(arrs, 1, Len(arrs) - 1)), arrs[Len(arrs)])

\* arrs.slice(0, n)
slice0(arrs, n) == SubSeq(arrs, 1, Min(Len(arrs), Max(0, n)))

\* a variant that trims without sorting
sortAndTrim_NoSort(sObj, maxPerRoute) ==
  [st \in DOMAIN sObj |->
     [rt \in DOMAIN sObj[st] |-> slice0(sObj[st][rt], maxPerRoute)]]

\* a variant whose cap counts the timed entries only: the approaching entries
\* are all kept
sortAndTrim_CapTimedOnly(sObj, maxPerRoute) ==
  LET timed(a) == a.arrival_epoch # None
      approaching(a) == a.arrival_epoch = None
  IN  [st \in DOMAIN sObj |->
         [rt \in DOMAIN sObj[st] |->
            slice0(SelectSeq(sortArrs(sObj[st][rt]), timed), maxPerRoute)
            \o SelectSeq(sObj[st][rt], approaching)]]

sortAndTrim(sObj, maxPerRoute) ==
  [st \in DOMAIN sObj |->
     [rt \in DOMAIN sObj[st] |-> slice0(sortArrs(sObj[st][rt]), maxPerRoute)]]

----------------------------------------------------------------------------
(* Speech helpers and the speech mode of the handler *)

sSpeech == <<"s","p","e","e","c","h">>
sIsApproaching == <<" ","i","s"," ","a","p","p","r","o","a","c","h","i","n","g">>
sIsArrivingNow == <<" ","i","s"," ","a","r","r","i","v","i","n","g"," ","n","o","w">>
sIn1Minute == <<" ","i","n"," ","1"," ","m","i","n","u","t","e">>
sIn == <<" ","i","n"," ">>
sMinutes == <<" ","m","i","n","u","t","e","s">>
sNorthbound == <<"(","n","o","r","t","h","b","o","u","n","d",")">>
sSouthbound == <<"(","s","o","u","t","h","b","o","u","n","d",")">>
sNone == <<"n","o","n","e">>
sColonSpace == <<":"," ">>
sSemiSpace == <<";"," ">>
sDot == <<".">>
sDotSpace == <<"."," ">>
sSpace == <<" ">>

\* the decimal digits of a number that is not negative (template literal)
RECURSIVE numStr(_)
numStr(n) ==
  IF n < 10 THEN <<DigitChars[n + 1]>>
  ELSE numStr(n \div 10) \o <<DigitChars[(n % 10) + 1]>>

sayArrival(t) ==
  IF t.in_min = None THEN t.route \o sIsApproaching
  ELSE IF Val(t.in_min) <= 0 THEN t.route \o sIsArrivingNow
  ELSE IF Val(t.in_min) = 1 THEN t.route \o sIn1Minute
  ELSE t.route \o sIn \o numStr(Val(t.in_min)) \o sMinutes

\* the key `${a.route}|${a.direction}|${a.in_min ?? "approach"}`
speechKey(a) == <<a.route, a.direction, a.in_min>>

\* arr.filter that keeps the first item of each key
RECURSIVE dedupeFrom(_, _)
dedupeFrom(arr, seen) ==
  IF arr = <<>> THEN <<>>
  ELSE IF speechKey(Head(arr)) \in seen THEN dedupeFrom(Tail(arr), seen)
  ELSE <<Head(arr)>> \o dedupeFrom(Tail(arr), seen \cup {speechKey(Head(arr))})
dedupeSpeech(arr) == dedupeFrom(arr, {})

\* spoken.replace(/^\S+\s+/, ""): a leading run of non-space characters and the
\* spaces after it are removed, if there are both
RECURSIVE dropWhile(_, _)
dropWhile(s, space) ==
  IF s # <<>> /\ (IsSpace(Head(s)) <=> space) THEN dropWhile(Tail(s), space) ELSE s
dropFirstWord(s) ==
  LET afterWord == dropWhile(s, FALSE)
  IN  IF Len(afterWord) < Len(s) /\ afterWord # <<>> /\ IsSpace(Head(afterWord))
      THEN dropWhile(afterWord, TRUE) ELSE s

\* arr.map((item, idx) => ...): the route name is left out of an item whose
\* route is that of the item before it
collapseSameRoute(arr) ==
  [idx \in 1..Len(arr) |->
     IF idx > 1 /\ arr[idx].route = arr[idx - 1].route
     THEN dropFirstWord(sayArrival(arr[idx])) ELSE sayArrival(arr[idx])]

\* parts.join(sep)
RECURSIVE join(_, _)
join(parts, sep) ==
  IF parts = <<>> THEN <<>>
  ELSE IF Len(parts) = 1 THEN parts[1]
  ELSE parts[1] \o sep \o join(Tail(parts), sep)

\* the keys of an object in the order of Object.entries; the order of several
\* keys is the order of their insertion, which a function does not keep: the
\* result is exact for an object with at most one key
RECURSIVE objectKeys(_)
objectKeys(keys) ==
  IF keys = {} THEN <<>>
  ELSE LET k == CHOOSE x \in keys : TRUE IN <<k>> \o objectKeys(keys \ {k})

\* Object.entries(routes).flatMap(([routeId, arrs]) => arrs.map(a => ({...a, route: routeId})))
RECURSIVE flattenFrom(_, _)
flattenFrom(routes, ks) ==
  IF ks = <<>> THEN <<>>
  ELSE [i \in 1..Len(routes[Head(ks)]) |-> [routes[Head(ks)][i] EXCEPT !.route = Head(ks)]]
       \o flattenFrom(routes, Tail(ks))
flatten(routes) == flattenFrom(routes, objectKeys(DOMAIN routes))

\* byDir(d): the items of direction d, without repeated keys, sorted by epoch
byDir(all, d) ==
  LET ofDir(a) == a.direction = d
  IN  sortArrs(dedupeSpeech(SelectSeq(all, ofDir)))

\* the sentence of one station
sentenceOf(stationName, routes, pq) ==
  LET all == flatten(routes)
      north == slice0(byDir(all, <<"N">>), pq.speechLimit)
      south == slice0(byDir(all, <<"S">>), pq.speechLimit)
      nItems == join(collapseSameRoute(north), sSemiSpace)
  IN  stationName \o sColonSpace \o
      ( IF pq.routeDirection = <<"N">>
        THEN IF north # <<>> THEN sNorthbound \o sSpace \o nItems \o sDot
             ELSE sNorthbound \o sSpace \o sNone \o sDot
        ELSE IF pq.routeDirection = <<"S">>
        THEN IF south # <<>> THEN sSouthbound \o sSpace \o nItems \o sDot
             ELSE sSouthbound \o sSpace \o sNone \o sDot
        ELSE (IF north # <<>> THEN sNorthbound \o sSpace \o nItems
              ELSE sNorthbound \o sSpace \o sNone)
             \o sDotSpace \o
             (IF south # <<>> THEN sSouthbound \o sSpace \o nItems
              ELSE sSouthbound \o sSpace \o sNone)
             \o sDot )

\* perStationSentences
perStationSentences(sObj, pq) ==
  [st \in DOMAIN sObj |-> sentenceOf(st, sObj[st], pq)]

\* ordered.map(n => perStationSentences[n]).filter(Boolean).join(" ")
RECURSIVE sentencesIn(_, _)
sentencesIn(ordered, sentences) ==
  IF ordered = <<>> THEN <<>>
  ELSE (IF Head(ordered) \in DOMAIN sentences /\ sentences[Head(ordered)] # <<>>
        THEN <<sentences[Head(ordered)]>> ELSE <<>>)
       \o sentencesIn(Tail(ordered), sentences)
\* a variant that always takes the sentences in the order of the keys
speechOf_KeyOrder(stationsResolved, sentences) ==
  join(sentencesIn(objectKeys(DOMAIN sentences), sentences), sSpace)

speechOf(stationsResolved, sentences) ==
  join(sentencesIn(IF stationsResolved # <<>> THEN stationsResolved
                   ELSE objectKeys(DOMAIN sentences), sentences), sSpace)

----------------------------------------------------------------------------
(* Bounds of the model and the inputs drawn *)

NumFeeds == 2        \* feeds of FEEDS that are modelled
MaxEntities == 2     \* entities over all feed messages of a run
MaxStu == 2          \* stop-time updates looked at in a run

FeedIds == 1..NumFeeds
Nows == {1700000000}

\* Event: { time?, delay? }
EventsOf(times, delays) == {Some([time |-> t, delay |-> d]) : t \in times, d \in delays}
StusOf(sids, arrivals, departures) ==
  {[stopId |-> s, arrival |-> a, departure |-> d] : s \in sids, a \in arrivals, d \in departures}

\* the stop-time updates a feed may hold at time t: absolute times before and
\* after t, delays that are small or an epoch
StusMain(t) ==
  StusOf({sA40N, sR01N},
         EventsOf({None, Some(t + 89), Some(t - 30)}, {None, Some(0), Some(t + 150)}),
         EventsOf({None, Some(t + 330)}, {None}))

\* records without a usable time, and one with: every shape of the delay fields
StusApproaching(t) ==
  StusOf({sA40N},
         {None} \cup EventsOf({None, Some(0)}, {None, Some(0), Some(EPOCH_GUESS_THRESHOLD)}),
         {None} \cup EventsOf({None}, {Some(45)}))
  \cup StusOf({sA40N, sR01N}, EventsOf({Some(t - 30)}, {None}), {None})

\* a few records at the stations of the index and elsewhere
StusResolve(t) ==
  StusOf({sA40N, sR01N}, EventsOf({Some(t + 89)}, {None}), {None})
  \cup StusOf({s231S}, EventsOf({None}, {None}), {None})

\* the inputs of getTimes: absent events and fields, zero times, and delays
\* at, below and above the threshold
StusTimes ==
  StusOf({sA40N},
         {None} \cup EventsOf({None, Some(0), Some(1700000089)},
                              {None, Some(0), Some(-60), Some(EPOCH_GUESS_THRESHOLD - 1),
                               Some(EPOCH_GUESS_THRESHOLD), Some(EPOCH_GUESS_THRESHOLD + 1),
                               Some(1700000000)}),
         {None} \cup EventsOf({None, Some(0), Some(1700000300)},
                              {None, Some(90), Some(EPOCH_GUESS_THRESHOLD - 1),
                               Some(EPOCH_GUESS_THRESHOLD + 1), Some(1700000600)}))

\* routeId of a trip update (tu.trip?.routeId)
RouteIds == {None, Some(<<"a">>)}

DefaultReq ==
  [ method |-> "GET", station |-> Some(sHighSt \o sComma \o sClarkSt), stop_ids |-> None,
    routes |-> None, max_per_route |-> None, lookback_seconds |-> None,
    show_debug |-> FALSE, raw_dump |-> FALSE, route_direction |-> None, format |-> None,
    speech_limit |-> None ]

\* requests that vary the window and the cap, the direction and the route filter
RequestsMain ==
  {[DefaultReq EXCEPT !.lookback_seconds = w, !.max_per_route = m, !.show_debug = d] :
      w \in {None, Some(60), Some(-60)}, m \in {None, Some(1)}, d \in {FALSE}}
  \cup {[DefaultReq EXCEPT !.route_direction = Some(<<"s">>), !.show_debug = TRUE],
        [DefaultReq EXCEPT !.show_debug = TRUE],
        [DefaultReq EXCEPT !.routes = Some(<<"A",","," ","c">>)],
        [DefaultReq EXCEPT !.method = "OPTIONS"],
        [DefaultReq EXCEPT !.station = Some(sBogus)]}

\* requests that vary the window and the direction filter
RequestsApproaching ==
  {[DefaultReq EXCEPT !.lookback_seconds = w, !.station = Some(sHighSt)] :
      w \in {None, Some(60), Some(-60)}}
  \cup {[DefaultReq EXCEPT !.route_direction = Some(<<"s">>)],
        [DefaultReq EXCEPT !.method = "OPTIONS"]}

\* requests that vary the station names and the stop ids
RequestsResolve ==
  {[DefaultReq EXCEPT !.station = st, !.stop_ids = ids, !.method = m] :
      st \in {None, Some(<<>>), Some(sBogus), Some(<<" ", ",", " ">>),
              Some(sClarkSt \o sComma \o sBogus),
              Some(sBogus \o <<",", " ">> \o sClarkStreetLoose \o <<" ", ",">> \o sHighSt),
              Some(sHighSt \o sComma \o sBogus \o sComma \o sClarkSt \o sComma \o sBogus)},
      ids \in {None, Some(<<",", " ">>), Some(sR01N \o <<",", " ">> \o sA40)},
      m \in {"GET"}}
  \cup {[DefaultReq EXCEPT !.method = "OPTIONS", !.station = Some(sBogus)]}

----------------------------------------------------------------------------
(* The handler *)

ZeroStats ==
  [ matchedNoTime |-> 0, matchedWithTime |-> 0, usedDelayAsTimeCount |-> 0,
    totalEntities |-> 0, totalTripUpdates |-> 0, totalStopTimeUpdates |-> 0 ]

IdleLoop == [feed |-> 0, entLeft |-> 0, pos |-> "feed", route |-> <<>>]

InitAt(requests, nows) ==
  /\ req \in requests
  /\ now \in nows
  /\ pc = "start"
  /\ q = None
  /\ resolved = None
  /\ results = [i \in FeedIds |-> "idle"]
  /\ loop = IdleLoop
  /\ stats = ZeroStats
  /\ sampleSet = <<>>
  /\ matchedNoTimeSet = <<>>
  /\ matchedNoTimeDetails = <<>>
  /\ stationsObj = <<>>
  /\ response = None
  /\ arg = [stopId |-> <<>>, arrival |-> None, departure |-> None]
  /\ ret = None

InitOf(requests) == InitAt(requests, Nows)

runVars == <<stats, sampleSet, matchedNoTimeSet, matchedNoTimeDetails, stationsObj>>

\* if (req.method === "OPTIONS") return res.status(204).end()
Options ==
  /\ pc = "start"
  /\ req.method = "OPTIONS"
  /\ response' = Some([status |-> 204])
  /\ pc' = "done"
  /\ UNCHANGED <<req, now, q, resolved, results, loop, runVars, arg, ret>>

\* new Set(x) of an array
RECURSIVE setOf(_)
setOf(xs) == IF xs = <<>> THEN <<>> ELSE setAdd(setOf(SubSeq(xs, 1, Len(xs) - 1)), xs[Len(xs)])

\* a variant of Start without the check of the resolved ids
Start_NoGuard ==
  /\ pc = "start"
  /\ req.method # "OPTIONS"
  /\ LET pq == parseQuery(req)
         rs == resolveStops(pq.stationRaw, pq.stopIdsParam)
     IN  /\ q' = Some(pq)
         /\ resolved' = Some(rs)
         /\ response' = None
         /\ pc' = "fetch"
         /\ results' = [i \in FeedIds |-> "pending"]
         /\ sampleSet' = setOf(rs.stopIdsSet)
  /\ UNCHANGED <<req, now, loop, stats, matchedNoTimeSet, matchedNoTimeDetails,
                 stationsObj, arg, ret>>

\* parseQuery, resolveStops, the 400 answer, and the start of all the fetches
Start ==
  /\ pc = "start"
  /\ req.method # "OPTIONS"
  /\ LET pq == parseQuery(req)
         rs == resolveStops(pq.stationRaw, pq.stopIdsParam)
     IN  /\ q' = Some(pq)
         /\ resolved' = Some(rs)
         /\ IF rs.stopIdsSet = <<>>
            THEN /\ response' = Some([status |-> 400, error |-> "No stop_ids resolved"])
                 /\ pc' = "done"
                 /\ UNCHANGED <<results, sampleSet>>
            ELSE /\ response' = None
                 /\ pc' = "fetch"
                 /\ results' = [i \in FeedIds |-> "pending"]
                 /\ sampleSet' = setOf(rs.stopIdsSet)
  /\ UNCHANGED <<req, now, loop, stats, matchedNoTimeSet, matchedNoTimeDetails,
                 stationsObj, arg, ret>>

\* fetchFeed(path) settles: a decoded message, or null after any error
FetchSettle(i) ==
  /\ pc = "fetch"
  /\ results[i] = "pending"
  /\ \E outcome \in {"ok", "failed"} : results' = [results EXCEPT ![i] = outcome]
  /\ UNCHANGED <<req, now, pc, q, resolved, loop, runVars, response, arg, ret>>

\* a variant of AllSettled that resumes the handler when the first fetch has
\* settled (Promise.race)
AllSettled_Any ==
  /\ pc = "fetch"
  /\ \E i \in FeedIds : results[i] \in {"ok", "failed"}
  /\ pc' = "merge"
  /\ loop' = [IdleLoop EXCEPT !.feed = 1]
  /\ UNCHANGED <<req, now, q, resolved, results, runVars, response, arg, ret>>

\* await Promise.allSettled(...) resumes the handler
AllSettled ==
  /\ pc = "fetch"
  /\ \A i \in FeedIds : results[i] \in {"ok", "failed"}
  /\ pc' = "merge"
  /\ loop' = [IdleLoop EXCEPT !.feed = 1]
  /\ UNCHANGED <<req, now, q, resolved, results, runVars, response, arg, ret>>

\* a variant of BeginFeed in which a failed fetch rejects and the handler's catch
\* answers with a 500
BeginFeed_Abort ==
  /\ pc = "merge"
  /\ loop.pos = "feed"
  /\ loop.feed <= NumFeeds
  /\ IF results[loop.feed] = "failed"
     THEN /\ response' = Some([status |-> 500, error |-> "server error"])
          /\ pc' = "done"
          /\ UNCHANGED <<stats, loop>>
     ELSE /\ \E n \in 0..(MaxEntities - stats.totalEntities) :
               /\ stats' = [stats EXCEPT !.totalEntities = @ + n]
               /\ loop' = IF n = 0 THEN [loop EXCEPT !.feed = @ + 1]
                          ELSE [loop EXCEPT !.entLeft = n, !.pos = "entity"]
          /\ UNCHANGED <<pc, response>>
  /\ UNCHANGED <<req, now, q, resolved, results, sampleSet, matchedNoTimeSet,
                 matchedNoTimeDetails, stationsObj, arg, ret>>

\* for (const r of results): a null message is skipped, else its entities are counted
BeginFeed ==
  /\ pc = "merge"
  /\ loop.pos = "feed"
  /\ loop.feed <= NumFeeds
  /\ IF results[loop.feed] = "failed"
     THEN /\ loop' = [loop EXCEPT !.feed = @ + 1]
          /\ UNCHANGED stats
     ELSE \E n \in 0..(MaxEntities - stats.totalEntities) :
            /\ stats' = [stats EXCEPT !.totalEntities = @ + n]
            /\ loop' = IF n = 0 THEN [loop EXCEPT !.feed = @ + 1]
                       ELSE [loop EXCEPT !.entLeft = n, !.pos = "entity"]
  /\ UNCHANGED <<req, now, pc, q, resolved, results, sampleSet, matchedNoTimeSet,
                 matchedNoTimeDetails, stationsObj, response, arg, ret>>

\* the loop position after the current entity
afterEntity(l) ==
  IF l.entLeft <= 1
  THEN [feed |-> l.feed + 1, entLeft |-> 0, pos |-> "feed", route |-> <<>>]
  ELSE [feed |-> l.feed, entLeft |-> l.entLeft - 1, pos |-> "entity", route |-> <<>>]

\* a variant of the route test that lets every route through
routeAllowed_Always(filter, route) == TRUE

\* includes() of the routes filter
routeAllowed(filter, route) == filter = None \/ InSeq(route, Val(filter))

\* for (const e of msg.entity): no trip update, or a route that is filtered out,
\* or the stop-time updates of the trip update
BeginEntity ==
  /\ pc = "merge"
  /\ loop.pos = "entity"
  /\ \E hasTu \in BOOLEAN, routeId \in RouteIds :
       IF ~hasTu
       THEN /\ loop' = afterEntity(loop)
            /\ UNCHANGED stats
       ELSE LET route == toUpperCase(IF IsSome(routeId) /\ Val(routeId) # <<>>
                                     THEN Val(routeId) ELSE sQuestion)
            IN  /\ stats' = [stats EXCEPT !.totalTripUpdates = @ + 1]
                /\ loop' = IF routeAllowed(Val(q).routesFilter, route)
                           THEN [loop EXCEPT !.pos = "stu", !.route = route]
                           ELSE afterEntity(loop)
  /\ UNCHANGED <<req, now, pc, q, resolved, results, sampleSet, matchedNoTimeSet,
                 matchedNoTimeDetails, stationsObj, response, arg, ret>>

\* a variant of the window filter that takes no account of the lookback
windowSkips_FutureOnly(lookbackSeconds, ts, t) == ts < t

\* the time window filter: TRUE when the record is skipped
windowSkips(lookbackSeconds, ts, t) ==
  \/ (lookbackSeconds = 0 /\ ts < t)
  \/ (lookbackSeconds > 0 /\ ts < t - lookbackSeconds)

\* a variant of the loop body with the window filter ahead of the no-time
\* branch, where a null ts compares as 0
mergeStu_WindowFirst(stu) ==
  LET sid == stu.stopId
      route == loop.route
      gt == getTimes(stu)
      tsNum == IF gt.ts = None THEN 0 ELSE Val(gt.ts)
      counted == [stats EXCEPT !.totalStopTimeUpdates = @ + 1]
  IN  IF \/ baseOf(sid) = <<>> \/ ~InSeq(baseOf(sid), Val(resolved).stopIdsSet)
         \/ (Val(q).routeDirection # sBOTH /\ dirFromStopId(sid) # Val(q).routeDirection)
         \/ windowSkips(Val(q).lookbackSeconds, tsNum, now)
      THEN /\ stats' = counted
           /\ UNCHANGED <<sampleSet, matchedNoTimeSet, matchedNoTimeDetails, stationsObj>>
      ELSE /\ stats' = [counted EXCEPT !.matchedNoTime = IF gt.ts = None THEN @ + 1 ELSE @,
                                       !.matchedWithTime = IF gt.ts = None THEN @ ELSE @ + 1]
           /\ sampleSet' = setAdd(sampleSet, sid)
           /\ stationsObj' = pushArrival(stationsObj, Val(resolved).baseToStation, sid, route,
                                now, gt.ts,
                                [status |-> IF gt.ts = None THEN "approaching" ELSE "undefined",
                                 delay_seconds |-> IF gt.ts = None THEN gt.delaySeconds ELSE None,
                                 used_delay_as_time |-> gt.usedDelayAsTime,
                                 origin |-> "none"])
           /\ UNCHANGED <<matchedNoTimeSet, matchedNoTimeDetails>>

\* a variant of the loop body that matches a stop id by prefix (prefixMatch), as
\* the older handlers of the file do
mergeStu_PrefixMatch(stu) ==
  LET sid == stu.stopId
      route == loop.route
      base == baseOf(sid)
      direction == dirFromStopId(sid)
      gt == getTimes(stu)
      counted == [stats EXCEPT !.totalStopTimeUpdates = @ + 1]
  IN  IF sid = <<>> \/ ~\E k \in 1..Len(Val(resolved).stopIdsSet) :
                            StartsWith(sid, Val(resolved).stopIdsSet[k])
      THEN /\ stats' = counted
           /\ UNCHANGED <<sampleSet, matchedNoTimeSet, matchedNoTimeDetails, stationsObj>>
      ELSE IF Val(q).routeDirection # sBOTH /\ direction # Val(q).routeDirection
      THEN /\ stats' = counted
           /\ UNCHANGED <<sampleSet, matchedNoTimeSet, matchedNoTimeDetails, stationsObj>>
      ELSE IF gt.ts = None
      THEN /\ stats' = [counted EXCEPT !.matchedNoTime = @ + 1]
           /\ sampleSet' = setAdd(sampleSet, sid)
           /\ matchedNoTimeSet' = setAdd(matchedNoTimeSet, sid)
           /\ matchedNoTimeDetails' =
                IF Val(q).showDebug
                THEN Append(matchedNoTimeDetails, [stop_id |-> sid, route |-> route])
                ELSE matchedNoTimeDetails
           /\ stationsObj' = pushArrival(stationsObj, Val(resolved).baseToStation, sid, route,
                                now, None,
                                [status |-> "approaching", delay_seconds |-> gt.delaySeconds,
                                 used_delay_as_time |-> FALSE, origin |-> "none"])
      ELSE IF windowSkips(Val(q).lookbackSeconds, Val(gt.ts), now)
      THEN /\ stats' = counted
           /\ sampleSet' = setAdd(sampleSet, sid)
           /\ UNCHANGED <<matchedNoTimeSet, matchedNoTimeDetails, stationsObj>>
      ELSE /\ stats' = [counted EXCEPT !.matchedWithTime = @ + 1,
                                       !.usedDelayAsTimeCount =
                                          IF gt.usedDelayAsTime THEN @ + 1 ELSE @]
           /\ sampleSet' = setAdd(sampleSet, sid)
           /\ stationsObj' = pushArrival(stationsObj, Val(resolved).baseToStation, sid, route,
                                now, gt.ts,
                                [status |-> "undefined", delay_seconds |-> None,
                                 used_delay_as_time |-> gt.usedDelayAsTime,
                                 origin |-> IF Truthy(gt.aTime) \/ Truthy(gt.dTime)
                                            THEN "time" ELSE "delay"])
           /\ UNCHANGED <<matchedNoTimeSet, matchedNoTimeDetails>>

\* v != null && Number(v) > EPOCH_GUESS_THRESHOLD
looksEpoch(v) == IsSome(v) /\ Val(v) > EPOCH_GUESS_THRESHOLD

\* the detail of a matched record without a time, kept when show_debug is set;
\* the ISO renderings of the interpret block are left out
detailOf(pq, sid, route, gt, stu) ==
  [ stop_id |-> sid, route |-> route,
    interpret |-> [ arrival_time_epoch |-> gt.aTime,
                    arrival_delay_seconds |-> gt.aDelay,
                    arrival_delay_looks_like_epoch |-> looksEpoch(gt.aDelay),
                    departure_time_epoch |-> gt.dTime,
                    departure_delay_seconds |-> gt.dDelay,
                    departure_delay_looks_like_epoch |-> looksEpoch(gt.dDelay) ],
    arrival_raw |-> IF pq.rawDump THEN Some(stu.arrival) ELSE None,
    departure_raw |-> IF pq.rawDump THEN Some(stu.departure) ELSE None ]

\* the body of for (const stu of tu.stopTimeUpdate || []), as a function of
\* the objects of the run (stats, sampleSet, matchedNoTimeSet,
\* matchedNoTimeDetails, stationsObj), the parsed query pq, the resolved stops
\* rs, the time t of the request and the route of the trip update
mergeStuOf(run, pq, rs, t, route, stu) ==
  LET sid == stu.stopId
      base == baseOf(sid)
      direction == dirFromStopId(sid)
      gt == getTimes(stu)
      counted == [run EXCEPT !.stats.totalStopTimeUpdates = @ + 1]
  IN  IF base = <<>> \/ ~InSeq(base, rs.stopIdsSet)
      THEN counted
      ELSE IF pq.routeDirection # sBOTH /\ direction # pq.routeDirection
      THEN counted
      ELSE IF gt.ts = None
      THEN [counted EXCEPT
              !.stats.matchedNoTime = @ + 1,
              !.sampleSet = setAdd(@, sid),
              !.matchedNoTimeSet = setAdd(@, sid),
              !.matchedNoTimeDetails =
                 IF pq.showDebug THEN Append(@, detailOf(pq, sid, route, gt, stu)) ELSE @,
              !.stationsObj =
                 pushArrival(@, rs.baseToStation, sid, route, t, None,
                             [status |-> "approaching", delay_seconds |-> gt.delaySeconds,
                              used_delay_as_time |-> FALSE, origin |-> "none"])]
      ELSE IF windowSkips(pq.lookbackSeconds, Val(gt.ts), t)
      THEN [counted EXCEPT !.sampleSet = setAdd(@, sid)]
      ELSE [counted EXCEPT
              !.stats.matchedWithTime = @ + 1,
              !.stats.usedDelayAsTimeCount = IF gt.usedDelayAsTime THEN @ + 1 ELSE @,
              !.sampleSet = setAdd(@, sid),
              !.stationsObj =
                 pushArrival(@, rs.baseToStation, sid, route, t, gt.ts,
                             [status |-> "undefined", delay_seconds |-> None,
                              used_delay_as_time |-> gt.usedDelayAsTime,
                              origin |-> IF Truthy(gt.aTime) \/ Truthy(gt.dTime)
                                         THEN "time" ELSE "delay"])]

\* the objects of the run
runOf ==
  [ stats |-> stats, sampleSet |-> sampleSet, matchedNoTimeSet |-> matchedNoTimeSet,
    matchedNoTimeDetails |-> matchedNoTimeDetails, stationsObj |-> stationsObj ]

\* a variant of the loop body that counts a record with a time as matched
\* before the stop, direction and window filters
mergeStu_CountFirst(stu) ==
  \E after \in {mergeStuOf(runOf, Val(q), Val(resolved), now, loop.route, stu)} :
    /\ stats' = [after.stats EXCEPT
                   !.matchedWithTime = IF getTimes(stu).ts # None THEN stats.matchedWithTime + 1
                                       ELSE @]
    /\ sampleSet' = after.sampleSet
    /\ matchedNoTimeSet' = after.matchedNoTimeSet
    /\ matchedNoTimeDetails' = after.matchedNoTimeDetails
    /\ stationsObj' = after.stationsObj

\* the loop body on the objects of the run
mergeStu(stu) ==
  \E after \in {mergeStuOf(runOf, Val(q), Val(resolved), now, loop.route, stu)} :
    /\ stats' = after.stats
    /\ sampleSet' = after.sampleSet
    /\ matchedNoTimeSet' = after.matchedNoTimeSet
    /\ matchedNoTimeDetails' = after.matchedNoTimeDetails
    /\ stationsObj' = after.stationsObj

MergeStu(stus) ==
  /\ pc = "merge"
  /\ loop.pos = "stu"
  /\ stats.totalStopTimeUpdates < MaxStu
  /\ \E stu \in stus : mergeStu(stu)
  /\ UNCHANGED <<req, now, pc, q, resolved, results, loop, response, arg, ret>>

\* the number of entries over all groups
RECURSIVE sumLen(_, _)
sumLen(sObj, keys) ==
  IF keys = {} THEN 0
  ELSE LET k == CHOOSE x \in keys : TRUE
       IN  Len(sObj[k[1]][k[2]]) + sumLen(sObj, keys \ {k})
totalEntries(sObj) ==
  sumLen(sObj, UNION {{<<s, r>> : r \in DOMAIN sObj[s]} : s \in DOMAIN sObj})

\* MergeStu with a history of the step in arg: the record the loop body ran on,
\* its route, and the number of entries there were before
MergeStuTraced(stus) ==
  /\ pc = "merge"
  /\ loop.pos = "stu"
  /\ stats.totalStopTimeUpdates < MaxStu
  /\ \E stu \in stus :
       /\ mergeStu(stu)
       /\ arg' = [stopId |-> stu.stopId, arrival |-> stu.arrival, departure |-> stu.departure,
                  route |-> loop.route, entriesBefore |-> totalEntries(stationsObj)]
  /\ UNCHANGED <<req, now, pc, q, resolved, results, loop, response, ret>>

\* the stop-time updates of the trip update are exhausted
EndTripUpdate ==
  /\ pc = "merge"
  /\ loop.pos = "stu"
  /\ loop' = afterEntity(loop)
  /\ UNCHANGED <<req, now, pc, q, resolved, results, runVars, response, arg, ret>>

\* x.length ? x : null
orNull(xs) == IF xs # <<>> THEN Some(xs) ELSE None

\* a variant of meta that reports the diagnostics flag
metaOf_WithDebugFlag(pq, rs, t) ==
  [ stations |-> orNull(rs.stationsResolved),
    unknown_stations |-> orNull(rs.unknownStations),
    stop_ids |-> rs.stopIdsSet,
    routes |-> pq.routesFilter,
    route_direction |-> pq.routeDirection,
    generated_at |-> t,
    max_per_route |-> pq.maxPerRoute,
    lookback_seconds |-> pq.lookbackSeconds,
    show_debug |-> pq.showDebug ]

\* meta of the answer
metaOf(pq, rs, t) ==
  [ stations |-> orNull(rs.stationsResolved),
    unknown_stations |-> orNull(rs.unknownStations),
    stop_ids |-> rs.stopIdsSet,
    routes |-> pq.routesFilter,
    route_direction |-> pq.routeDirection,
    generated_at |-> t,
    max_per_route |-> pq.maxPerRoute,
    lookback_seconds |-> pq.lookbackSeconds ]

\* the payload of the speech mode
speechPayload(sObj, pq, rs, t) ==
  [ status |-> 200,
    meta |-> metaOf(pq, rs, t),
    speech |-> speechOf(rs.stationsResolved, perStationSentences(sObj, pq)),
    stations_speech |-> perStationSentences(sObj, pq),
    debug |-> IF pq.showDebug
              THEN Some([ matched_no_time |-> stats.matchedNoTime,
                          matched_with_time |-> stats.matchedWithTime,
                          used_delay_as_time_count |-> stats.usedDelayAsTimeCount,
                          total_entities |-> stats.totalEntities,
                          total_trip_updates |-> stats.totalTripUpdates,
                          total_stop_time_updates |-> stats.totalStopTimeUpdates ])
              ELSE None ]

\* the payload of the JSON mode
jsonPayload(sObj, pq, rs, t) ==
  [ status |-> 200,
    meta |-> metaOf(pq, rs, t),
    stations |-> sObj,
    debug |-> IF pq.showDebug
              THEN Some([ matched_no_time |-> stats.matchedNoTime,
                          matched_with_time |-> stats.matchedWithTime,
                          used_delay_as_time_count |-> stats.usedDelayAsTimeCount,
                          total_entities |-> stats.totalEntities,
                          total_trip_updates |-> stats.totalTripUpdates,
                          total_stop_time_updates |-> stats.totalStopTimeUpdates,
                          sample_stop_ids |-> sampleSet,
                          matched_no_time_ids |-> matchedNoTimeSet,
                          matched_no_time_details |-> matchedNoTimeDetails ])
              ELSE None ]

\* the answer after sortAndTrim: the speech payload or the JSON payload
answerOf(sObj, pq, rs, t) ==
  IF pq.format = Some(sSpeech) THEN speechPayload(sObj, pq, rs, t)
  ELSE jsonPayload(sObj, pq, rs, t)

\* sortAndTrim, meta and the speech payload or the JSON payload
Respond ==
  /\ pc = "merge"
  /\ loop.pos = "feed"
  /\ loop.feed > NumFeeds
  /\ stationsObj' = sortAndTrim(stationsObj, Val(q).maxPerRoute)
  /\ response' = Some(answerOf(stationsObj', Val(q), Val(resolved), now))
  /\ pc' = "done"
  /\ UNCHANGED <<req, now, q, resolved, results, loop, stats, sampleSet, matchedNoTimeSet,
                 matchedNoTimeDetails, arg, ret>>

MergeStuMain == MergeStu(StusMain(now))

Next ==
  \/ Options
  \/ Start
  \/ \E i \in FeedIds : FetchSettle(i)
  \/ AllSettled
  \/ BeginFeed
  \/ BeginEntity
  \/ MergeStuMain
  \/ EndTripUpdate
  \/ Respond

Spec == InitOf(RequestsMain) /\ [][Next]_vars

----------------------------------------------------------------------------
(* The handler on records without a usable time *)

MergeStuApproaching == MergeStuTraced(StusApproaching(now))

NextApproaching ==
  \/ Options
  \/ Start
  \/ \E i \in FeedIds : FetchSettle(i)
  \/ AllSettled
  \/ BeginFeed
  \/ BeginEntity
  \/ MergeStuApproaching
  \/ EndTripUpdate
  \/ Respond

SpecApproaching == InitOf(RequestsApproaching) /\ [][NextApproaching]_vars

----------------------------------------------------------------------------
(* The handler on requests that name stations and stop ids in every way *)

MergeStuResolve == MergeStu(StusResolve(now))

NextResolve ==
  \/ Options
  \/ Start
  \/ \E i \in FeedIds : FetchSettle(i)
  \/ AllSettled
  \/ BeginFeed
  \/ BeginEntity
  \/ MergeStuResolve
  \/ EndTripUpdate
  \/ Respond

SpecResolve == InitOf(RequestsResolve) /\ [][NextResolve]_vars

----------------------------------------------------------------------------
(* The handler on requests that vary the filters, with the history of the
   last step of the loop body in arg *)

sR01 == <<"R","0","1">>
s23 == <<"2","3">>

\* records at both platforms of High St, at A40 without a direction, and at
\* two stations that the index does not give for High St; each with a time
\* ahead or with no time at all
StusFilters(t) ==
  StusOf({sA40N, sA40S, sA40, sR01N, s231S}, {None} \cup EventsOf({Some(t + 89)}, {None}), {None})

\* requests that vary the route list, the direction, and the stop ids
RequestsFilters ==
  {[DefaultReq EXCEPT !.station = Some(sHighSt), !.route_direction = d] :
      d \in {None, Some(<<"s">>), Some(<<"N">>)}}
  \cup {[DefaultReq EXCEPT !.station = Some(sHighSt), !.routes = Some(<<"A",","," ","c">>)],
        [DefaultReq EXCEPT !.station = None, !.stop_ids = Some(sA40N)],
        [DefaultReq EXCEPT !.station = Some(sHighSt), !.stop_ids = Some(sR01 \o sComma \o s23)],
        [DefaultReq EXCEPT !.method = "OPTIONS"]}

MergeStuFilters == MergeStuTraced(StusFilters(now))

NextFilters ==
  \/ Options
  \/ Start
  \/ \E i \in FeedIds : FetchSettle(i)
  \/ AllSettled
  \/ BeginFeed
  \/ BeginEntity
  \/ MergeStuFilters
  \/ EndTripUpdate
  \/ Respond

SpecFilters == InitOf(RequestsFilters) /\ [][NextFilters]_vars

----------------------------------------------------------------------------
(* The handler in speech mode *)

\* records at both platforms of High St: a time 89 or 330 seconds ahead, or
\* no time
StusSpeech(t) ==
  StusOf({sA40N, sA40S}, {None} \cup EventsOf({Some(t + 89), Some(t + 330)}, {None}), {None})

\* requests for the speech of High St and Clark St on route A, for each
\* direction and two limits
RequestsSpeech ==
  {[DefaultReq EXCEPT !.format = Some(sSpeech), !.routes = Some(<<"a">>),
                      !.route_direction = d, !.speech_limit = l] :
      d \in {None, Some(<<"S">>), Some(<<"N">>)}, l \in {None, Some(1)}}
  \cup {[DefaultReq EXCEPT !.method = "OPTIONS"]}

MergeStuSpeech == MergeStu(StusSpeech(now))

NextSpeech ==
  \/ Options
  \/ Start
  \/ \E i \in FeedIds : FetchSettle(i)
  \/ AllSettled
  \/ BeginFeed
  \/ BeginEntity
  \/ MergeStuSpeech
  \/ EndTripUpdate
  \/ Respond

SpecSpeech == InitOf(RequestsSpeech) /\ [][NextSpeech]_vars

----------------------------------------------------------------------------
(* The handler in speech mode on two stations with arrivals *)

\* northbound records at High St and at Clark St, 89 or 330 seconds ahead
StusOrder(t) ==
  StusOf({sA40N, s231N}, EventsOf({Some(t + 89), Some(t + 330)}, {None}), {None})

\* requests for the northbound speech of the two stations, named in either order
RequestsOrder ==
  {[DefaultReq EXCEPT !.format = Some(sSpeech), !.routes = Some(<<"a">>),
                      !.route_direction = Some(<<"N">>), !.station = Some(st)] :
      st \in {sHighSt \o sComma \o sClarkSt, sClarkSt \o sComma \o sHighSt}}
  \cup {[DefaultReq EXCEPT !.method = "OPTIONS"]}

MergeStuOrder == MergeStu(StusOrder(now))

NextOrder ==
  \/ Options
  \/ Start
  \/ \E i \in FeedIds : FetchSettle(i)
  \/ AllSettled
  \/ BeginFeed
  \/ BeginEntity
  \/ MergeStuOrder
  \/ EndTripUpdate
  \/ Respond

SpecOrder == InitOf(RequestsOrder) /\ [][NextOrder]_vars

----------------------------------------------------------------------------
(* The handler with and without diagnostics: next to the run of the request
   there is the run of the same request without show_debug and raw_dump, on
   the same feeds and at the same time; ret holds the objects of that run *)

\* records at High St and elsewhere: no time, a delay only, or a time ahead
StusDebug(t) ==
  StusOf({sA40N, sR01N},
         {None} \cup EventsOf({None}, {Some(45)}) \cup EventsOf({Some(t + 89)}, {None}),
         {None})

\* requests with each setting of show_debug and raw_dump, in JSON and in
\* speech mode, and one that resolves no stop
RequestsDebug ==
  {[DefaultReq EXCEPT !.station = Some(sHighSt), !.routes = Some(<<"a">>),
                      !.show_debug = d, !.raw_dump = r, !.format = f] :
      d \in BOOLEAN, r \in BOOLEAN, f \in {None, Some(sSpeech)}}
  \cup {[DefaultReq EXCEPT !.station = Some(sBogus), !.show_debug = TRUE],
        [DefaultReq EXCEPT !.method = "OPTIONS", !.show_debug = TRUE]}

\* the request without diagnostics
plainReq(r) == [r EXCEPT !.show_debug = FALSE, !.raw_dump = FALSE]

\* the objects of the run without diagnostics: as the handler creates them
\* until the loop body has run, then those held in ret; the entities and the
\* trip updates are counted by the steps that both runs take together
plainRun ==
  LET created == [ stats |-> ZeroStats,
                   sampleSet |-> setOf(resolveStops(plainReq(req).station,
                                                    plainReq(req).stop_ids).stopIdsSet),
                   matchedNoTimeSet |-> <<>>, matchedNoTimeDetails |-> <<>>,
                   stationsObj |-> <<>> ]
  IN  [(IF ret = None THEN created ELSE ret) EXCEPT
         !.stats.totalEntities = stats.totalEntities,
         !.stats.totalTripUpdates = stats.totalTripUpdates]

\* the loop body runs on the same record in both runs
MergeStuDebug ==
  /\ pc = "merge"
  /\ loop.pos = "stu"
  /\ stats.totalStopTimeUpdates < MaxStu
  /\ \E stu \in StusDebug(now) :
       /\ mergeStu(stu)
       /\ ret' = mergeStuOf(plainRun, parseQuery(plainReq(req)),
                            resolveStops(plainReq(req).station, plainReq(req).stop_ids),
                            now, loop.route, stu)
  /\ UNCHANGED <<req, now, pc, q, resolved, results, loop, response, arg>>

NextDebug ==
  \/ Options
  \/ Start
  \/ \E i \in FeedIds : FetchSettle(i)
  \/ AllSettled
  \/ BeginFeed
  \/ BeginEntity
  \/ MergeStuDebug
  \/ EndTripUpdate
  \/ Respond

SpecDebug == InitOf(RequestsDebug) /\ [][NextDebug]_vars

----------------------------------------------------------------------------
(* The handler on feeds that repeat a record, with the history of the last
   step of the loop body in arg *)

\* records at the two platforms of High St with one and the same time, and
\* one without a time
StusDup(t) ==
  StusOf({sA40N, sA40S}, EventsOf({Some(t + 89)}, {None}), {None})
  \cup StusOf({sA40N}, {None}, {None})

\* requests for High St on route A under the default cap and a cap of 1
RequestsDup ==
  {[DefaultReq EXCEPT !.station = Some(sHighSt), !.routes = Some(<<"a">>),
                      !.max_per_route = m] : m \in {None, Some(1), Some(2)}}
  \cup {[DefaultReq EXCEPT !.method = "OPTIONS"]}

MergeStuDup == MergeStuTraced(StusDup(now))

NextDup ==
  \/ Options
  \/ Start
  \/ \E i \in FeedIds : FetchSettle(i)
  \/ AllSettled
  \/ BeginFeed
  \/ BeginEntity
  \/ MergeStuDup
  \/ EndTripUpdate
  \/ Respond

SpecDup == InitOf(RequestsDup) /\ [][NextDup]_vars

----------------------------------------------------------------------------
(* The handler on a feed of one kind of record, whose arrival delay holds an
   epoch, at several times of the request *)

\* the record {stop_id: "231S", arrival: {delay: 1700000000}}
StusFallback ==
  StusOf({s231S}, EventsOf({None}, {Some(1700000000)}), {None})

\* times of the request before, at and after the epoch of the record
NowsFallback == {1699999990, 1700000000, 1700000030, 1700000100}

\* requests for Clark St under each kind of window
RequestsFallback ==
  {[DefaultReq EXCEPT !.station = Some(sClarkSt), !.lookback_seconds = w] :
      w \in {None, Some(60), Some(-60)}}
  \cup {[DefaultReq EXCEPT !.method = "OPTIONS"]}

MergeStuFallback == MergeStuTraced(StusFallback)

NextFallback ==
  \/ Options
  \/ Start
  \/ \E i \in FeedIds : FetchSettle(i)
  \/ AllSettled
  \/ BeginFeed
  \/ BeginEntity
  \/ MergeStuFallback
  \/ EndTripUpdate
  \/ Respond

SpecFallback == InitAt(RequestsFallback, NowsFallback) /\ [][NextFallback]_vars

----------------------------------------------------------------------------
(* norm and resolveStops applied on their own to two writings of one name *)

sSt == <<"S","t">>
sStreet == <<"S","t","r","e","e","t">>

\* the writings of the name "<word> St": leading and trailing whitespace, the
\* letters as they are, in lower or in upper case, one or several spaces or
\* tabs between the words, and St or Street
Writings(word) ==
  {lead \o wcase \o sep \o stcase \o trail :
     lead \in {<<>>, <<" ">>},
     wcase \in {word, toLowerCase(word), toUpperCase(word)},
     sep \in {<<" ">>, <<" "," "," ">>, <<"\t"," ">>},
     stcase \in {sSt, toLowerCase(sSt), toUpperCase(sSt),
                 sStreet, toLowerCase(sStreet), toUpperCase(sStreet)},
     trail \in {<<>>, <<" "," ">>}}

\* the first words of two names of the index and of a name that it lacks
FirstWords == {<<"H","i","g","h">>, <<"C","l","a","r","k">>, sBogus}

InitNorm ==
  /\ \E word \in FirstWords : \E a, b \in Writings(word) : arg = [a |-> a, b |-> b]
  /\ ret = None
  /\ pc = "call"
  /\ req = DefaultReq
  /\ now \in Nows
  /\ q = None
  /\ resolved = None
  /\ results = [i \in FeedIds |-> "idle"]
  /\ loop = IdleLoop
  /\ stats = ZeroStats
  /\ sampleSet = <<>>
  /\ matchedNoTimeSet = <<>>
  /\ matchedNoTimeDetails = <<>>
  /\ stationsObj = <<>>
  /\ response = None

ApplyNorm ==
  /\ pc = "call"
  /\ ret' = [ normA |-> norm(arg.a), normB |-> norm(arg.b),
              resolvedA |-> resolveStops(Some(arg.a), None),
              resolvedB |-> resolveStops(Some(arg.b), None) ]
  /\ pc' = "returned"
  /\ UNCHANGED <<req, now, q, resolved, results, loop, runVars, response, arg>>

NextNorm == ApplyNorm

SpecNorm == InitNorm /\ [][NextNorm]_vars

----------------------------------------------------------------------------
(* The handler on feeds of fixed content that settle in any order: every
   feed that is fetched holds one trip update of route A with one record, all
   records with one and the same time; arg holds the order of settlement *)

sA == <<"A">>

\* a variant in which the results are in the order in which the fetches settled
feedAt_Settled(k) == arg.order[k]

\* the feed whose message is results[k]: Promise.allSettled keeps the order of
\* FEEDS.map(fetchFeed)
feedAt(k) == k

\* the record of the k-th message
stuOfFeed(k, t) ==
  [ stopId |-> IF feedAt(k) = 1 THEN sA40N ELSE IF feedAt(k) = 2 THEN sA40S ELSE sA40,
    arrival |-> Some([time |-> Some(t + 89), delay |-> None]),
    departure |-> None ]

\* requests for High St under the default cap and a cap of 1
RequestsSettle ==
  {[DefaultReq EXCEPT !.station = Some(sHighSt), !.max_per_route = m] :
      m \in {None, Some(1), Some(2)}}

\* FetchSettle with the order of settlement in arg
FetchSettleTraced(i) ==
  /\ pc = "fetch"
  /\ results[i] = "pending"
  /\ \E outcome \in {"ok", "failed"} : results' = [results EXCEPT ![i] = outcome]
  /\ arg' = [order |-> (IF "order" \in DOMAIN arg THEN arg.order ELSE <<>>) \o <<i>>]
  /\ UNCHANGED <<req, now, pc, q, resolved, loop, runVars, response, ret>>

\* a message holds one entity
BeginFeedFixed ==
  /\ BeginFeed
  /\ results[loop.feed] # "failed" => loop'.entLeft = 1

\* the entity holds a trip update of route A
BeginEntityFixed ==
  /\ BeginEntity
  /\ loop'.pos = "stu"
  /\ loop'.route = sA

\* the trip update holds one record
MergeStuFixed ==
  /\ stats.totalStopTimeUpdates < stats.totalEntities
  /\ MergeStu({stuOfFeed(loop.feed, now)})

EndTripUpdateFixed ==
  /\ stats.totalStopTimeUpdates = stats.totalEntities
  /\ EndTripUpdate

NextSettle ==
  \/ Start
  \/ \E i \in FeedIds : FetchSettleTraced(i)
  \/ AllSettled
  \/ BeginFeedFixed
  \/ BeginEntityFixed
  \/ MergeStuFixed
  \/ EndTripUpdateFixed
  \/ Respond

SpecSettle == InitOf(RequestsSettle) /\ [][NextSettle]_vars

----------------------------------------------------------------------------
(* The handler on requests that name one station twice, in two writings *)

sClarkStreet == <<"c","l","a","r","k"," ","s","t","r","e","e","t">>

\* records at the platforms of Clark St and at High St, with a time or without
StusAlias(t) ==
  StusOf({s231N, s231S, sA40N}, {None} \cup EventsOf({Some(t + 89)}, {None}), {None})

\* requests that name Clark St in two writings, in either order and with
\* High St between them
RequestsAlias ==
  {[DefaultReq EXCEPT !.station = Some(st), !.routes = Some(<<"a">>)] :
      st \in {sClarkSt \o sComma \o sClarkStreet,
              sClarkStreet \o sComma \o sClarkSt,
              sClarkSt \o sComma \o sHighSt \o sComma \o sClarkStreet}}

MergeStuAlias == MergeStu(StusAlias(now))

NextAlias ==
  \/ Start
  \/ \E i \in FeedIds : FetchSettle(i)
  \/ AllSettled
  \/ BeginFeed
  \/ BeginEntity
  \/ MergeStuAlias
  \/ EndTripUpdate
  \/ Respond

SpecAlias == InitOf(RequestsAlias) /\ [][NextAlias]_vars

----------------------------------------------------------------------------
(* The handler of api/arrivals_by_station.js: the feeds are fetched and
   decoded one after the other inside the try block of the handler. q holds
   the station, resolved the stop ids, ret the arrivals collected; stats
   counts the entities and stop-time updates read, which bounds the model *)

\* normalize(s) of arrivals_by_station.js
normalize(s) == trim(collapseSpaces(replaceStreet(toLowerCase(s))))

\* a.includes(q)
includes(s, sub) ==
  \E i \in 1..(Len(s) - Len(sub) + 1) : SubSeq(s, i, i + Len(sub) - 1) = sub

\* raw.split(/[;,]/)
RECURSIVE splitIdsAcc(_, _)
splitIdsAcc(s, cur) ==
  IF s = <<>> THEN <<cur>>
  ELSE IF Head(s) \in {";", ","} THEN <<cur>> \o splitIdsAcc(Tail(s), <<>>)
  ELSE splitIdsAcc(Tail(s), Append(cur, Head(s)))

\* the rows of the stations data set that the model has: two stations, one of
\* them with two stop ids in its field
stationRows ==
  << [station_name |-> sHighSt, station_complex |-> <<>>, gtfs_stop_id |-> sA40N],
     [station_name |-> sClarkSt, station_complex |-> <<>>,
      gtfs_stop_id |-> s231N \o <<";", " ">> \o s231S] >>

\* ids.add of the pieces of the rows of the pool
RECURSIVE idsOf(_, _)
idsOf(pool, ids) ==
  IF pool = <<>> THEN ids
  ELSE LET pieces == trimAndFilter(splitIdsAcc(Head(pool).gtfs_stop_id, <<>>))
           add[k \in 0..Len(pieces)] == IF k = 0 THEN ids ELSE setAdd(add[k - 1], pieces[k])
       IN  idsOf(Tail(pool), add[Len(pieces)])

\* lookupStopIds on the rows fetched: None when it throws for want of ids
lookupStopIds(station, rows) ==
  LET qn == normalize(station)
      exact(r) == normalize(r.station_name) = qn \/ normalize(r.station_complex) = qn
      partial(r) == \/ includes(normalize(r.station_name), qn)
                    \/ includes(normalize(r.station_complex), qn)
      hits == SelectSeq(rows, exact)
      pool == IF hits # <<>> THEN hits ELSE SelectSeq(rows, partial)
      ids == idsOf(pool, <<>>)
  IN  IF ids = <<>> THEN None ELSE Some(ids)

\* Math.max(0, Math.round((t - now) / 60))
roundMin(ts, t) == Max(0, (ts - t + 30) \div 60)

\* arrivals.sort((a,b)=>a.arrival_epoch-b.arrival_epoch), which is stable
RECURSIVE sortByEpoch(_)
sortByEpoch(arrs) ==
  IF arrs = <<>> THEN <<>>
  ELSE LET x == arrs[Len(arrs)]
           rest == sortByEpoch(SubSeq(arrs, 1, Len(arrs) - 1))
           le(a) == a.arrival_epoch <= x.arrival_epoch
           gt(a) == a.arrival_epoch > x.arrival_epoch
       IN  SelectSeq(rest, le) \o <<x>> \o SelectSeq(rest, gt)

\* byRoute: the first 5 arrivals of each route
byRouteOf(arrs) ==
  [rt \in {arrs[i].route : i \in 1..Len(arrs)} |->
     LET ofRoute(a) == a.route = rt
     IN  slice0(SelectSeq(arrs, ofRoute), 5)]

\* the station parameter, lookupStopIds (whose fetch may fail), the 400 answer
BsStart ==
  /\ pc = "start"
  /\ LET station == trim(IF IsSome(req.station) THEN Val(req.station) ELSE <<>>)
     IN  IF station = <<>>
         THEN /\ response' = Some([status |-> 400, error |-> "station required"])
              /\ pc' = "done"
              /\ UNCHANGED <<q, resolved, loop>>
         ELSE \E fetched \in BOOLEAN :
                LET ids == IF fetched THEN lookupStopIds(station, stationRows) ELSE None
                IN  IF ids = None
                    THEN /\ response' = Some([status |-> 500, error |-> "server error"])
                         /\ pc' = "done"
                         /\ UNCHANGED <<q, resolved, loop>>
                    ELSE /\ q' = Some([station |-> station])
                         /\ resolved' = Some([stopIds |-> Val(ids)])
                         /\ loop' = [IdleLoop EXCEPT !.feed = 1]
                         /\ pc' = "merge"
                         /\ UNCHANGED response
  /\ UNCHANGED <<req, now, results, runVars, arg, ret>>

\* const r = await fetch(...); if (!r.ok) continue; FeedMessage.decode(buf):
\* a fetch that rejects and bytes that do not decode throw, and the catch of
\* the handler answers 500
BsFetch ==
  /\ pc = "merge"
  /\ loop.pos = "feed"
  /\ loop.feed <= NumFeeds
  /\ \E outcome \in {"ok", "notok", "rejected", "malformed"} :
       /\ results' = [results EXCEPT ![loop.feed] = outcome]
       /\ IF outcome \in {"rejected", "malformed"}
          THEN /\ response' = Some([status |-> 500, error |-> "server error"])
               /\ pc' = "done"
               /\ UNCHANGED <<stats, loop>>
          ELSE IF outcome = "notok"
          THEN /\ loop' = [loop EXCEPT !.feed = @ + 1]
               /\ UNCHANGED <<stats, response, pc>>
          ELSE /\ \E n \in 0..(MaxEntities - stats.totalEntities) :
                    /\ stats' = [stats EXCEPT !.totalEntities = @ + n]
                    /\ loop' = IF n = 0 THEN [loop EXCEPT !.feed = @ + 1]
                               ELSE [loop EXCEPT !.entLeft = n, !.pos = "entity"]
               /\ UNCHANGED <<response, pc>>
  /\ UNCHANGED <<req, now, q, resolved, sampleSet, matchedNoTimeSet, matchedNoTimeDetails,
                 stationsObj, arg, ret>>

\* for (const ent of msg.entity): no trip update, or its stop-time updates
BsEntity ==
  /\ pc = "merge"
  /\ loop.pos = "entity"
  /\ \E hasTu \in BOOLEAN, routeId \in RouteIds :
       IF ~hasTu
       THEN loop' = afterEntity(loop)
       ELSE loop' = [loop EXCEPT !.pos = "stu",
                                 !.route = IF IsSome(routeId) /\ Val(routeId) # <<>>
                                           THEN Val(routeId) ELSE sQuestion]
  /\ UNCHANGED <<req, now, pc, q, resolved, results, runVars, response, arg, ret>>

\* the body of for (const stu of tu.stop_time_update || [])
BsStu(stus) ==
  /\ pc = "merge"
  /\ loop.pos = "stu"
  /\ stats.totalStopTimeUpdates < MaxStu
  /\ \E stu \in stus :
       LET sid == stu.stopId
           aTime == timeOf(stu.arrival)
           dTime == timeOf(stu.departure)
           t == IF Truthy(aTime) THEN Val(aTime) ELSE IF Truthy(dTime) THEN Val(dTime) ELSE 0
       IN  /\ stats' = [stats EXCEPT !.totalStopTimeUpdates = @ + 1]
           /\ ret' = IF sid # <<>> /\ InSeq(sid, Val(resolved).stopIds) /\ t # 0 /\ t >= now - 15
                     THEN Append(ret, [stop_id |-> sid, route |-> loop.route,
                                       arrival_epoch |-> t, in_min |-> roundMin(t, now)])
                     ELSE ret
  /\ UNCHANGED <<req, now, pc, q, resolved, results, loop, sampleSet, matchedNoTimeSet,
                 matchedNoTimeDetails, stationsObj, response, arg>>

\* sort, group and trim, and the answer
BsRespond ==
  /\ pc = "merge"
  /\ loop.pos = "feed"
  /\ loop.feed > NumFeeds
  /\ response' = Some([status |-> 200, station |-> Val(q).station, generated_at |-> now,
                       routes |-> byRouteOf(sortByEpoch(ret))])
  /\ pc' = "done"
  /\ UNCHANGED <<req, now, q, resolved, results, loop, runVars, arg, ret>>

\* records at the stops of the two stations and elsewhere, with a time ahead,
\* just past, long past, or none
StusByStation(t) ==
  StusOf({sA40N, s231S, sR01N},
         {None} \cup EventsOf({Some(t + 89), Some(t - 10), Some(t - 30)}, {None}),
         {None})

\* requests by the name of a station, in several writings, without a name and
\* by a name that no row has
RequestsByStation ==
  {[DefaultReq EXCEPT !.station = st] :
      st \in {None, Some(<<" ">>), Some(sHighSt), Some(sClarkStreetLoose), Some(sSt),
              Some(sBogus)}}

BsStuByStation == BsStu(StusByStation(now))

NextByStation ==
  \/ BsStart
  \/ BsFetch
  \/ BsEntity
  \/ BsStuByStation
  \/ EndTripUpdate
  \/ BsRespond

SpecByStation == InitOf(RequestsByStation) /\ [][NextByStation]_vars

----------------------------------------------------------------------------
(* getTimes applied on its own *)

InitTimes ==
  /\ arg \in StusTimes
  /\ ret = None
  /\ pc = "call"
  /\ req = DefaultReq
  /\ now \in Nows
  /\ q = None
  /\ resolved = None
  /\ results = [i \in FeedIds |-> "idle"]
  /\ loop = IdleLoop
  /\ stats = ZeroStats
  /\ sampleSet = <<>>
  /\ matchedNoTimeSet = <<>>
  /\ matchedNoTimeDetails = <<>>
  /\ stationsObj = <<>>
  /\ response = None

ApplyGetTimes ==
  /\ pc = "call"
  /\ ret' = Some(getTimes(arg))
  /\ pc' = "returned"
  /\ UNCHANGED <<req, now, q, resolved, results, loop, runVars, response, arg>>

NextTimes == ApplyGetTimes

SpecTimes == InitTimes /\ [][NextTimes]_vars

----------------------------------------------------------------------------
(* Properties of getTimes (SpecTimes) *)

\* the fields of a record of the feed, read off the record itself
FieldTime(ev) == IF ev = <<>> THEN <<>> ELSE ev[1].time
FieldDelay(ev) == IF ev = <<>> THEN <<>> ELSE ev[1].delay
ArgATime == FieldTime(arg.arrival)
ArgDTime == FieldTime(arg.departure)
ArgADelay == FieldDelay(arg.arrival)
ArgDDelay == FieldDelay(arg.departure)
NonZero(o) == o # <<>> /\ o[1] # 0
Exceeds(o) == o # <<>> /\ o[1] > EPOCH_GUESS_THRESHOLD
Returned == pc = "returned"

\* C1: when arrival.time is present and non-zero the epoch is arrival.time;
\* otherwise when departure.time is present and non-zero the epoch is
\* departure.time; in both cases usedDelayAsTime is false, whatever the delays.
C1_AbsoluteTimeWins ==
  Returned =>
    /\ NonZero(ArgATime) =>
         (ret[1].ts = ArgATime /\ ret[1].usedDelayAsTime = FALSE)
    /\ (~NonZero(ArgATime) /\ NonZero(ArgDTime)) =>
         (ret[1].ts = ArgDTime /\ ret[1].usedDelayAsTime = FALSE)

\* a departure time was taken although arrival.time is zero and a delay exceeds
\* the threshold
C1_Witness ==
  /\ Returned
  /\ ArgATime = <<0>>
  /\ NonZero(ArgDTime)
  /\ Exceeds(ArgADelay)
  /\ ret[1].ts = ArgDTime

\* C2 as stated: without a non-zero absolute time, a record that holds the delay
\* EPOCH_GUESS_THRESHOLD - 1 resolves to no time, and a record that holds the
\* delay EPOCH_GUESS_THRESHOLD + 1 resolves to that value (records that hold
\* both values, on which the two halves disagree, are left aside).
C2_AsStated ==
  LET below == <<EPOCH_GUESS_THRESHOLD - 1>> \in {ArgADelay, ArgDDelay}
      above == <<EPOCH_GUESS_THRESHOLD + 1>> \in {ArgADelay, ArgDDelay}
  IN  (Returned /\ ~NonZero(ArgATime) /\ ~NonZero(ArgDTime) /\ ~(below /\ above)) =>
        /\ below => ret[1].ts = <<>>
        /\ above => (ret[1].ts = <<EPOCH_GUESS_THRESHOLD + 1>> /\ ret[1].usedDelayAsTime = TRUE)

\* C2 amended: without a non-zero absolute time, the delay EPOCH_GUESS_THRESHOLD - 1
\* is never the epoch, and the record resolves to no time unless the other delay
\* exceeds the threshold; the delay EPOCH_GUESS_THRESHOLD + 1 is the epoch when
\* it is arrival.delay, or departure.delay with an arrival.delay that does not
\* exceed the threshold.
C2_Boundary ==
  (Returned /\ ~NonZero(ArgATime) /\ ~NonZero(ArgDTime)) =>
    /\ ret[1].ts # <<EPOCH_GUESS_THRESHOLD - 1>>
    /\ ( /\ <<EPOCH_GUESS_THRESHOLD - 1>> \in {ArgADelay, ArgDDelay}
         /\ ~Exceeds(ArgADelay) /\ ~Exceeds(ArgDDelay) ) =>
         (ret[1].ts = <<>> /\ ret[1].usedDelayAsTime = FALSE)
    /\ ( \/ ArgADelay = <<EPOCH_GUESS_THRESHOLD + 1>>
         \/ (ArgDDelay = <<EPOCH_GUESS_THRESHOLD + 1>> /\ ~Exceeds(ArgADelay)) ) =>
         (ret[1].ts = <<EPOCH_GUESS_THRESHOLD + 1>> /\ ret[1].usedDelayAsTime = TRUE)

\* the value below the threshold came with a zero time and was not taken, and in
\* another field the value above the threshold was
C2_Witness ==
  /\ Returned
  /\ ArgATime = <<0>>
  /\ ~NonZero(ArgDTime)
  /\ ArgADelay = <<EPOCH_GUESS_THRESHOLD - 1>>
  /\ ArgDDelay = <<EPOCH_GUESS_THRESHOLD + 1>>
  /\ ret[1].ts = <<EPOCH_GUESS_THRESHOLD + 1>>

----------------------------------------------------------------------------
(* Properties of the response (Spec) *)

\* every entry of every station/route list
EntriesOf(sObj) ==
  UNION {UNION {{sObj[st][rt][i] : i \in 1..Len(sObj[st][rt])} : rt \in DOMAIN sObj[st]} :
           st \in DOMAIN sObj}

\* the handler has answered with the JSON payload
Answered == pc = "done" /\ response # <<>> /\ response[1].status = 200

\* C3: in the final response an entry carries used_delay_as_time = true if and
\* only if its arrival_epoch was taken from a delay field; entries whose epoch
\* came from an absolute time, and approaching entries, never carry it.
C3_FallbackFlag ==
  Answered =>
    \A e \in EntriesOf(response[1].stations) :
      /\ (e.used_delay_as_time = TRUE) <=> (e.origin = "delay")
      /\ (e.origin = "time" \/ e.arrival_epoch = <<>>) => e.used_delay_as_time = FALSE

\* a response that holds an entry taken from a delay and one taken from a time
C3_Witness ==
  /\ Answered
  /\ \E e1, e2 \in EntriesOf(response[1].stations) :
       /\ e1.origin = "delay" /\ e1.used_delay_as_time = TRUE
       /\ e2.origin = "time" /\ e2.used_delay_as_time = FALSE

\* C5: every entry of the response with a non-null arrival_epoch has
\* in_min = max(0, floor((arrival_epoch - now) / 60)) for the one now of the
\* request: in_min minutes have fully passed and in_min + 1 have not, and 0 for
\* an epoch in the past.
C5_MinutesFloor ==
  Answered =>
    \A e \in EntriesOf(response[1].stations) :
      e.arrival_epoch # <<>> =>
        /\ e.in_min # <<>>
        /\ LET d == e.arrival_epoch[1] - response[1].meta.generated_at
               m == e.in_min[1]
           IN  /\ m >= 0
               /\ d >= 0 => (60 * m <= d /\ d < 60 * m + 60)
               /\ d < 0 => m = 0

\* an arrival 89 seconds away is reported as 1, and one in the past as 0
C5_Witness ==
  /\ Answered
  /\ \E e1, e2 \in EntriesOf(response[1].stations) :
       /\ e1.arrival_epoch = <<response[1].meta.generated_at + 89>> /\ e1.in_min = <<1>>
       /\ e2.arrival_epoch = <<response[1].meta.generated_at - 30>> /\ e2.in_min = <<0>>

\* the cap parseQuery takes from the request
CapOf(r) ==
  IF r.max_per_route = <<>> THEN 5
  ELSE IF r.max_per_route[1] < 1 THEN 1
  ELSE IF r.max_per_route[1] > 10 THEN 10 ELSE r.max_per_route[1]

\* C6: after sortAndTrim every station/route list of the response is ordered by
\* non-decreasing arrival_epoch with the null-epoch entries after all timed
\* entries, and its length is at most the effective per-route cap.
C6_SortedAndCapped ==
  Answered =>
    \A st \in DOMAIN response[1].stations : \A rt \in DOMAIN response[1].stations[st] :
      LET l == response[1].stations[st][rt]
      IN  /\ Len(l) <= CapOf(req)
          /\ \A i, j \in 1..Len(l) :
               i < j => \/ l[j].arrival_epoch = <<>>
                        \/ /\ l[i].arrival_epoch # <<>>
                           /\ l[i].arrival_epoch[1] <= l[j].arrival_epoch[1]

\* with a cap of 1, a timed and an approaching record went into the one group
\* there is, and the timed one is what is left
C6_Witness ==
  /\ Answered
  /\ CapOf(req) = 1
  /\ stats.matchedNoTime = 1 /\ stats.matchedWithTime = 1
  /\ \E st \in DOMAIN response[1].stations :
       /\ DOMAIN response[1].stations = {st}
       /\ \E rt \in DOMAIN response[1].stations[st] :
            /\ DOMAIN response[1].stations[st] = {rt}
            /\ Len(response[1].stations[st][rt]) = 1
            /\ response[1].stations[st][rt][1].arrival_epoch # <<>>

\* the position of the first entry of the least epoch in a list of timed entries
FirstEarliest(l) ==
  CHOOSE i \in 1..Len(l) :
    /\ \A j \in 1..Len(l) : l[i].arrival_epoch[1] <= l[j].arrival_epoch[1]
    /\ \A j \in 1..(i - 1) : l[j].arrival_epoch[1] # l[i].arrival_epoch[1]

\* the k earliest entries of a list of timed entries, earliest first
RECURSIVE Earliest(_, _)
Earliest(l, k) ==
  IF k = 0 \/ l = <<>> THEN <<>>
  ELSE LET i == FirstEarliest(l)
       IN  <<l[i]>> \o Earliest(SubSeq(l, 1, i - 1) \o SubSeq(l, i + 1, Len(l)), k - 1)

\* what is left of a group under a cap: the earliest timed entries up to the
\* cap, then approaching entries as far as the cap leaves room
Trimmed(group, cap) ==
  LET timed(a) == a.arrival_epoch # <<>>
      approaching(a) == a.arrival_epoch = <<>>
      t == Len(SelectSeq(group, timed))
      a == Len(SelectSeq(group, approaching))
  IN  Earliest(SelectSeq(group, timed), Min(t, cap))
      \o SubSeq(SelectSeq(group, approaching), 1, Min(a, cap - Min(t, cap)))

\* C24: the step that trims takes every group that holds t timed and a
\* approaching entries to the min(t, cap) earliest timed entries followed by
\* min(a, cap - min(t, cap)) approaching entries: approaching entries count
\* toward the cap and are the first to be cut.
C24_ApproachingCutFirst ==
  [][(pc = "merge" /\ pc' = "done") =>
       /\ DOMAIN stationsObj' = DOMAIN stationsObj
       /\ \A st \in DOMAIN stationsObj :
            /\ DOMAIN stationsObj'[st] = DOMAIN stationsObj[st]
            /\ \A rt \in DOMAIN stationsObj[st] :
                 stationsObj'[st][rt] = Trimmed(stationsObj[st][rt], CapOf(req))]_vars

\* under a cap of 1, a group that held an approaching entry and then a timed
\* one holds the timed one only
C24_Witness ==
  /\ Answered
  /\ CapOf(req) = 1
  /\ stats.matchedNoTime = 1 /\ stats.matchedWithTime = 1
  /\ matchedNoTimeSet = <<sA40N>>
  /\ sampleSet = <<sA40, s231, sA40N>>
  /\ DOMAIN stationsObj = {sHighSt}
  /\ \A rt \in DOMAIN stationsObj[sHighSt] :
       /\ Len(stationsObj[sHighSt][rt]) = 1
       /\ stationsObj[sHighSt][rt][1].arrival_epoch # <<>>

\* the window the caller supplied (lookback_seconds, 0 when absent)
WindowOf(r) == IF r.lookback_seconds = <<>> THEN 0 ELSE r.lookback_seconds[1]

\* C7 as stated: for every window w, negative values included, a record with a
\* resolved epoch t is kept for aggregation only if t >= now - w.
C7_WindowAsStated ==
  \A e \in EntriesOf(stationsObj) :
    e.arrival_epoch # <<>> => e.arrival_epoch[1] >= now - WindowOf(req)

----------------------------------------------------------------------------
(* Properties of the merge loop on records without a usable time
   (SpecApproaching, where arg holds the record of the last step) *)

\* neither an absolute time nor an epoch-like delay yields an epoch
NoUsableTime(stu) ==
  /\ ~NonZero(FieldTime(stu.arrival)) /\ ~NonZero(FieldTime(stu.departure))
  /\ ~Exceeds(FieldDelay(stu.arrival)) /\ ~Exceeds(FieldDelay(stu.departure))

\* the record's platform belongs to a requested base id
Requested(sid) ==
  LET b == IF sid # <<>> /\ sid[Len(sid)] \in {"N", "S"} THEN SubSeq(sid, 1, Len(sid) - 1) ELSE sid
  IN  b # <<>> /\ \E i \in 1..Len(resolved[1].stopIdsSet) : resolved[1].stopIdsSet[i] = b

\* the record passes the direction filter of the request
DirectionPasses(sid) ==
  \/ q[1].routeDirection = sBOTH
  \/ (sid # <<>> /\ <<sid[Len(sid)]>> = q[1].routeDirection)

\* the loop body has just run on a matched record that passes the filters and
\* has no usable time
MatchedNoTimeStep ==
  /\ pc = "merge"
  /\ stats.totalStopTimeUpdates > 0
  /\ NoUsableTime(arg)
  /\ Requested(arg.stopId)
  /\ DirectionPasses(arg.stopId)

\* the list of a station and route, empty when there is none
GroupOf(sObj, st, rt) ==
  IF st \in DOMAIN sObj /\ rt \in DOMAIN sObj[st] THEN sObj[st][rt] ELSE <<>>

\* C4: for a matched stop-time update without a usable time the handler goes on
\* (no drop, no error) and appends to a group an entry with status
\* "approaching", arrival_epoch null, in_min null and delay_seconds =
\* arrival.delay if present (0 and values under the threshold included), else
\* departure.delay.
C4_ApproachingEntry ==
  MatchedNoTimeStep =>
    \E st \in DOMAIN stationsObj :
      LET g == GroupOf(stationsObj, st, arg.route)
      IN  /\ g # <<>>
          /\ g[Len(g)].stop_id = arg.stopId
          /\ g[Len(g)].status = "approaching"
          /\ g[Len(g)].arrival_epoch = <<>>
          /\ g[Len(g)].in_min = <<>>
          /\ g[Len(g)].delay_seconds =
               (IF FieldDelay(arg.arrival) # <<>> THEN FieldDelay(arg.arrival)
                ELSE FieldDelay(arg.departure))

\* the last step appended an approaching entry with delay_seconds 0 although
\* departure.delay is 45, after one whose delay is the threshold itself
C4_Witness ==
  /\ MatchedNoTimeStep
  /\ FieldDelay(arg.arrival) = <<0>>
  /\ FieldDelay(arg.departure) = <<45>>
  /\ \E e1, e2 \in EntriesOf(stationsObj) :
       /\ e1.status = "approaching" /\ e1.delay_seconds = <<0>>
       /\ e2.status = "approaching" /\ e2.delay_seconds = <<EPOCH_GUESS_THRESHOLD>>

\* C8: a matched record without a usable time that passes the route and
\* direction filters is added to its group for every value of the window: the
\* step adds exactly one entry, an approaching one, whatever lookback_seconds is.
C8_ApproachingBypassesWindow ==
  MatchedNoTimeStep =>
    /\ totalEntries(stationsObj) = arg.entriesBefore + 1
    /\ \E st \in DOMAIN stationsObj :
         LET g == GroupOf(stationsObj, st, arg.route)
         IN  g # <<>> /\ g[Len(g)].arrival_epoch = <<>> /\ g[Len(g)].stop_id = arg.stopId

\* under a window of 0 a timed record 30 seconds in the past was dropped, and
\* the record without a time that came next was added
C8_Witness ==
  /\ MatchedNoTimeStep
  /\ WindowOf(req) = 0
  /\ stats.totalStopTimeUpdates = 2
  /\ Len(sampleSet) = 2
  /\ stats.matchedWithTime = 0
  /\ totalEntries(stationsObj) = 1

----------------------------------------------------------------------------
(* Properties of the resolution of names and ids (SpecResolve) *)

\* the non-empty comma-separated items of an optional parameter
ItemsOf(p) == IF p = <<>> THEN <<>> ELSE trimAndFilter(split(p[1]))

\* the index has the name, under the normalised key, with at least one id
Known(name) ==
  \E i \in 1..Len(stationIndexRaw) :
    norm(stationIndexRaw[i][1]) = norm(name) /\ stationIndexRaw[i][2] # <<>>
Unknown(name) == ~Known(name)

\* resolveStops has just returned: the handler has answered 400, or has
\* started the fetches and none has settled
JustResolved ==
  \/ (pc = "done" /\ response # <<>> /\ response[1].status = 400)
  \/ (pc = "fetch" /\ \A i \in FeedIds : results[i] = "pending")

\* C9: every non-empty name of the station parameter is in exactly one of
\* stationsResolved (the index has it) and unknownStations (it has not), each
\* list in input order; when a name resolves, the handler never answers with
\* an error, it can always go on until it has answered, and the answer is a
\* 200 whose meta.unknown_stations lists the unknown names.
C9_PartialResolution ==
  (req.method = "GET" /\ resolved # <<>>) =>
    LET rs == resolved[1]
    IN  /\ (JustResolved \/ pc = "done") =>
             /\ rs.stationsResolved = SelectSeq(ItemsOf(req.station), Known)
             /\ rs.unknownStations = SelectSeq(ItemsOf(req.station), Unknown)
        /\ rs.stationsResolved # <<>> =>
             /\ pc # "done" => (response = <<>> /\ ENABLED NextResolve)
             /\ pc = "done" =>
                  /\ response # <<>>
                  /\ response[1].status = 200
                  /\ response[1].meta.stations = <<rs.stationsResolved>>
                  /\ response[1].meta.unknown_stations =
                       (IF rs.unknownStations = <<>> THEN <<>> ELSE <<rs.unknownStations>>)

\* "Bogus, clark  street ,High St" was answered with a 200 that has two
\* stations and lists Bogus as unknown
C9_Witness ==
  /\ pc = "done"
  /\ req.method = "GET"
  /\ response # <<>>
  /\ response[1].status = 200
  /\ response[1].meta.stations = << <<sClarkStreetLoose, sHighSt>> >>
  /\ response[1].meta.unknown_stations = << <<sBogus>> >>

\* no name of the station parameter is in the index and stop_ids has no item
NoIds(r) ==
  /\ \A i \in 1..Len(ItemsOf(r.station)) : Unknown(ItemsOf(r.station)[i])
  /\ ItemsOf(r.stop_ids) = <<>>

\* C10: a GET is answered with status 400 exactly when the names and the stop
\* ids given resolve to no id at all (every other answer is a 200, never a
\* 500); in that case no fetch has been started and nothing has been merged.
C10_ClientError ==
  req.method = "GET" =>
    /\ pc = "done" => response # <<>>
    /\ response # <<>> =>
         /\ response[1].status \in {200, 400}
         /\ response[1].status = 400 <=> NoIds(req)
    /\ NoIds(req) =>
         /\ pc \in {"start", "done"}
         /\ \A i \in FeedIds : results[i] = "idle"
         /\ stats = ZeroStats
         /\ stationsObj = <<>>
         /\ loop = IdleLoop

\* station=Bogus with stop_ids=", " was answered with a 400
C10_Witness ==
  /\ pc = "done"
  /\ req.method = "GET"
  /\ req.station = <<sBogus>>
  /\ req.stop_ids = << <<",", " ">> >>
  /\ response # <<>>
  /\ response[1].status = 400
  /\ \A i \in FeedIds : results[i] = "idle"

----------------------------------------------------------------------------
(* Properties of the filters of the merge loop (SpecFilters, where arg holds
   the record of the last step) *)

\* a stop id without its trailing N or S
Base(sid) ==
  IF sid # <<>> /\ sid[Len(sid)] \in {"N", "S"} THEN SubSeq(sid, 1, Len(sid) - 1) ELSE sid

\* the loop body has run at least once: arg is the record of its last run
StepDone == pc = "merge" /\ stats.totalStopTimeUpdates > 0

\* C11 as stated: the requested set holds base ids only; a stop id given through
\* stop_ids, with or without a trailing N/S, puts its base id into the set; and
\* a record at a platform of such an id (here one without a usable time, which
\* no window can drop) that passes the direction filter is aggregated.
C11_AsStated ==
  resolved # <<>> =>
    LET set == resolved[1].stopIdsSet
        given == ItemsOf(req.stop_ids)
    IN  /\ \A i \in 1..Len(set) : Base(set[i]) = set[i]
        /\ \A k \in 1..Len(given) : \E i \in 1..Len(set) : set[i] = Base(given[k])
        /\ ( /\ StepDone
             /\ NoUsableTime(arg)
             /\ DirectionPasses(arg.stopId)
             /\ \E k \in 1..Len(given) : Base(given[k]) = Base(arg.stopId) ) =>
             totalEntries(stationsObj) = arg.entriesBefore + 1

\* the request gives a route allow-list
ListGiven(r) == r.routes # <<>> /\ r.routes[1] # <<>>

\* the route is in the list of the request, whatever the case of the letters
InList(r, route) ==
  \E k \in 1..Len(ItemsOf(r.routes)) : toUpperCase(ItemsOf(r.routes)[k]) = toUpperCase(route)

\* C12: with a route allow-list, after every step no group is of a route
\* outside the list (compared without case) and the loop over stop-time updates,
\* where the stop-id matching and the station lookup are, is only ever entered
\* for a route of the list; without a list every trip update that is counted
\* enters that loop, whatever its route.
C12_RouteFilter ==
  [][ /\ ListGiven(req) =>
           /\ \A st \in DOMAIN stationsObj' : \A rt \in DOMAIN stationsObj'[st] :
                /\ InList(req, rt)
                /\ \A i \in 1..Len(stationsObj'[st][rt]) : stationsObj'[st][rt][i].route = rt
           /\ loop'.pos = "stu" => InList(req, loop'.route)
      /\ (~ListGiven(req) /\ stats'.totalTripUpdates = stats.totalTripUpdates + 1) =>
           (loop'.pos = "stu" /\ loop'.route # <<>>)
      /\ (ListGiven(req) /\ stats'.totalTripUpdates = stats.totalTripUpdates + 1
            /\ loop'.pos # "stu") =>
           UNCHANGED <<sampleSet, matchedNoTimeSet, matchedNoTimeDetails, stationsObj>>
    ]_vars

\* routes=A, c: two trip updates were counted, one stop-time update was looked
\* at, and the one entry of the answer is of route A (the feed said "a")
C12_Witness ==
  /\ Answered
  /\ ListGiven(req)
  /\ stats.totalTripUpdates = 2
  /\ stats.totalStopTimeUpdates = 1
  /\ \E st \in DOMAIN response[1].stations :
       /\ DOMAIN response[1].stations[st] = {<<"A">>}
       /\ Len(response[1].stations[st][<<"A">>]) = 1

\* the direction filter of the request: N, S, or BOTH when there is none
DirOf(r) ==
  IF r.route_direction = <<>> \/ r.route_direction[1] = <<>> THEN sBOTH
  ELSE toUpperCase(r.route_direction[1])

\* the stop id ends in the letter d
EndsIn(sid, d) == sid # <<>> /\ <<sid[Len(sid)]>> = d

\* C13: under a direction filter N or S every entry of every group has a stop
\* id that ends in that letter, and a record with the other suffix or with none
\* adds no entry and no id to the no-time set, the counters of matched records
\* being at all times the number of entries added; under BOTH a record at a
\* requested stop is never dropped: its id is in the sample set and (its time,
\* if any, being ahead) it adds an entry.
C13_DirectionFilter ==
  (req.method = "GET" /\ pc = "merge") =>
    /\ stats.matchedNoTime + stats.matchedWithTime = totalEntries(stationsObj)
    /\ DirOf(req) \in {<<"N">>, <<"S">>} =>
         /\ \A e \in EntriesOf(stationsObj) :
              EndsIn(e.stop_id, DirOf(req)) /\ e.direction = DirOf(req)
         /\ \A i \in 1..Len(matchedNoTimeSet) : EndsIn(matchedNoTimeSet[i], DirOf(req))
         /\ (StepDone /\ ~EndsIn(arg.stopId, DirOf(req))) =>
              totalEntries(stationsObj) = arg.entriesBefore
    /\ (DirOf(req) = sBOTH /\ StepDone /\ Requested(arg.stopId)) =>
         /\ InSeq(arg.stopId, sampleSet)
         /\ totalEntries(stationsObj) = arg.entriesBefore + 1

\* under route_direction=s a record at A40S was added, and the record at A40
\* (no suffix) that came next was dropped
C13_Witness ==
  /\ StepDone
  /\ DirOf(req) = <<"S">>
  /\ arg.stopId = sA40
  /\ arg.entriesBefore = 1
  /\ totalEntries(stationsObj) = 1
  /\ \E e \in EntriesOf(stationsObj) : e.stop_id = sA40S

\* the station a stop id is grouped under: the name the request gave for its
\* base id, or "Unknown"
StationOf(sid) ==
  IF Base(sid) \in DOMAIN resolved[1].baseToStation
  THEN resolved[1].baseToStation[Base(sid)] ELSE sUnknown

\* C14: every entry of every group, the "Unknown" group included, has a stop id
\* whose base id is in the requested set, and stands under the station of that
\* base id; a record whose base id is not in the set adds no entry.
C14_OnlyRequestedStops ==
  (req.method = "GET" /\ resolved # <<>>) =>
    /\ \A st \in DOMAIN stationsObj : \A rt \in DOMAIN stationsObj[st] :
         \A i \in 1..Len(stationsObj[st][rt]) :
           /\ Requested(stationsObj[st][rt][i].stop_id)
           /\ st = StationOf(stationsObj[st][rt][i].stop_id)
    /\ (StepDone /\ ~Requested(arg.stopId)) =>
         totalEntries(stationsObj) = arg.entriesBefore

\* with station=High St and stop_ids=R01,23 a record at R01N went into the
\* "Unknown" group; the record at 231S that came next added nothing
C14_Witness ==
  /\ StepDone
  /\ arg.stopId = s231S
  /\ arg.entriesBefore = 1
  /\ totalEntries(stationsObj) = 1
  /\ DOMAIN stationsObj = {sUnknown}
  /\ \E e \in EntriesOf(stationsObj) : e.stop_id = sR01N

----------------------------------------------------------------------------
(* Properties of the fan-out to the feeds and the fan-in of the results (Spec) *)

\* the merge loop is at a feed whose fetch failed
AtFailedFeed ==
  pc = "merge" /\ loop.pos = "feed" /\ loop.feed <= NumFeeds /\ results[loop.feed] = "failed"

\* C15: whatever feeds fail, the run is not aborted: the step of the merge loop
\* at a failed feed goes on to the next feed and leaves every counter, every
\* set and every group as it is, so that the answer is made of the records of
\* the feeds that succeeded alone; the answer is a 200 (with no record and zero
\* counters when every feed failed), never an error.
C15_FailedFeedsSkipped ==
  [][ /\ AtFailedFeed =>
           /\ UNCHANGED <<stats, sampleSet, matchedNoTimeSet, matchedNoTimeDetails, stationsObj>>
           /\ loop' = [loop EXCEPT !.feed = @ + 1]
           /\ pc' = "merge" /\ response' = <<>>
      /\ (pc = "merge" /\ \A i \in FeedIds : results[i] = "failed") =>
           (stats' = ZeroStats /\ stationsObj' = <<>> /\ matchedNoTimeSet' = <<>>)
      /\ (pc = "merge" /\ pc' = "done") =>
           (response' # <<>> /\ response'[1].status = 200
              /\ response'[1].stations = stationsObj')
    ]_vars

\* the first feed failed, the second one gave a record, and the answer is a 200
\* that holds its entry
C15_Witness ==
  /\ Answered
  /\ results[1] = "failed"
  /\ results[2] = "ok"
  /\ stats.totalEntities > 0
  /\ stats.matchedWithTime > 0
  /\ response[1].stations # <<>>

\* a fetch has been started and has not settled
SomePending == \E i \in FeedIds : results[i] = "pending"

\* C16: the fetches are in flight together and settle in any order, but while
\* one of them is pending no step writes stats, sampleSet, matchedNoTimeSet,
\* matchedNoTimeDetails or stationsObj; these are written by the steps of the
\* merge loop alone (after their construction at the start), and the merge
\* loop runs only when every fetch has settled.
C16_SingleWriter ==
  [][ /\ SomePending =>
           (pc = "fetch" /\ UNCHANGED <<stats, sampleSet, matchedNoTimeSet,
                                        matchedNoTimeDetails, stationsObj>>)
      /\ <<stats, sampleSet, matchedNoTimeSet, matchedNoTimeDetails, stationsObj>>'
           # <<stats, sampleSet, matchedNoTimeSet, matchedNoTimeDetails, stationsObj>> =>
           \/ pc = "start"
           \/ (pc = "merge" /\ \A i \in FeedIds : results[i] \in {"ok", "failed"})
      /\ pc' = "merge" => \A i \in FeedIds : results'[i] \in {"ok", "failed"}
      /\ pc' = "fetch" => (stats' = ZeroStats /\ stationsObj' = <<>> /\ matchedNoTimeSet' = <<>>)
    ]_vars

\* the second fetch has failed while the first one is still pending, and
\* nothing has been merged
C16_Witness ==
  /\ pc = "fetch"
  /\ results[1] = "pending"
  /\ results[2] = "failed"
  /\ stats = ZeroStats
  /\ stationsObj = <<>>

----------------------------------------------------------------------------
(* Properties of the speech mode (SpecSpeech) *)

\* the handler has answered with the speech payload
SpeechAnswered ==
  /\ pc = "done" /\ response # <<>> /\ response[1].status = 200
  /\ req.format = <<sSpeech>>

\* the limit of items per direction that the request asks for
SpeechLimitOf(r) == IF r.speech_limit = <<>> THEN 2 ELSE Max(1, r.speech_limit[1])

\* the entries of direction d of a station in the trimmed lists, as they are
\* spoken: without repeated keys, by epoch, cut to the limit
SpokenOf(st, d) ==
  slice0(byDir(flatten(stationsObj[st]), d), SpeechLimitOf(req))

\* the clause of a direction: its label and its own items, or none
ClauseOf(st, d) ==
  (IF d = <<"N">> THEN sNorthbound ELSE sSouthbound) \o sSpace \o
  (IF SpokenOf(st, d) = <<>> THEN sNone
   ELSE join(collapseSameRoute(SpokenOf(st, d)), sSemiSpace))

\* C17 as stated: in the sentence of every station the southbound clause lists
\* the southbound items of that station and the northbound clause its
\* northbound items, under the direction filter S, N and BOTH.
C17_ClausesAsStated ==
  SpeechAnswered =>
    \A st \in DOMAIN response[1].stations_speech :
      response[1].stations_speech[st] =
        st \o sColonSpace \o
        (IF DirOf(req) = <<"N">> THEN ClauseOf(st, <<"N">>) \o sDot
         ELSE IF DirOf(req) = <<"S">> THEN ClauseOf(st, <<"S">>) \o sDot
         ELSE ClauseOf(st, <<"N">>) \o sDotSpace \o ClauseOf(st, <<"S">>) \o sDot)

\* sub occurs in s
Contains(s, sub) ==
  \E i \in 1..(Len(s) - Len(sub) + 1) : SubSeq(s, i, i + Len(sub) - 1) = sub

\* the directions the request asks for
DirsOf(r) == IF DirOf(r) = sBOTH THEN {<<"N">>, <<"S">>} ELSE {DirOf(r)}

\* C18 as stated: every resolved station has its sentence in the speech, also
\* when it has no arrival at all; in it every requested direction without
\* arrivals reads "none"; and no clause is an empty fragment.
C18_NoneAsStated ==
  SpeechAnswered =>
    \A k \in 1..Len(resolved[1].stationsResolved) :
      LET st == resolved[1].stationsResolved[k]
          sentences == response[1].stations_speech
      IN  /\ st \in DOMAIN sentences
          /\ Contains(response[1].speech, sentences[st])
          /\ \A d \in DirsOf(req) :
               SpokenOf(st, d) = <<>> =>
                 Contains(sentences[st],
                          (IF d = <<"N">> THEN sNorthbound ELSE sSouthbound) \o sSpace \o sNone)
          /\ ~Contains(sentences[st], sNorthbound \o sSpace \o sDot)
          /\ ~Contains(sentences[st], sSouthbound \o sSpace \o sDot)

\* the list of direction d of a station: the trimmed route lists flattened,
\* the entries of that direction kept, sorted by epoch with approaching last
ListOf(st, d) ==
  LET ofDir(a) == a.direction = d
  IN  sortArrs(SelectSeq(flatten(stationsObj[st]), ofDir))

\* C21 as stated: the northbound items spoken for a station are the first
\* speech_limit entries of the flattened, filtered and sorted list of that
\* station, none of them skipped or removed before the head is taken.
C21_HeadAsStated ==
  (SpeechAnswered /\ DirOf(req) # <<"S">>) =>
    \A st \in DOMAIN response[1].stations_speech :
      LET head == slice0(ListOf(st, <<"N">>), SpeechLimitOf(req))
      IN  StartsWith(response[1].stations_speech[st],
                     st \o sColonSpace \o sNorthbound \o sSpace \o
                     (IF head = <<>> THEN sNone
                      ELSE join(collapseSameRoute(head), sSemiSpace)) \o sDot)

----------------------------------------------------------------------------
(* Properties of the order of the speech (SpecOrder) *)

\* the station names in the order the request gives them
NamesGiven(r) ==
  IF r.station = <<sHighSt \o sComma \o sClarkSt>> THEN <<sHighSt, sClarkSt>>
  ELSE IF r.station = <<sClarkSt \o sComma \o sHighSt>> THEN <<sClarkSt, sHighSt>>
  ELSE <<>>

\* the sentences of the stations names, in that order
RECURSIVE SentencesOf(_, _)
SentencesOf(names, sentences) ==
  IF names = <<>> THEN <<>>
  ELSE (IF Head(names) \in DOMAIN sentences THEN <<sentences[Head(names)]>> ELSE <<>>)
       \o SentencesOf(Tail(names), sentences)

\* C22: in speech mode with a resolved station, the speech is the sentences of
\* the stations, joined by a space, in the order in which the request names
\* the stations, whatever the order of the records in the feeds, of the
\* alphabet and of the epochs.
C22_SpeechInRequestOrder ==
  SpeechAnswered =>
    response[1].speech =
      join(SentencesOf(NamesGiven(req), response[1].stations_speech), sSpace)

\* High St is named first; the record of Clark St was merged first and is the
\* earlier one; the speech has the sentence of High St first
C22_Witness ==
  /\ SpeechAnswered
  /\ NamesGiven(req) = <<sHighSt, sClarkSt>>
  /\ sampleSet = <<sA40, s231, s231N, sA40N>>
  /\ stationsObj[sClarkSt][<<"A">>][1].arrival_epoch = <<now + 89>>
  /\ stationsObj[sHighSt][<<"A">>][1].arrival_epoch = <<now + 330>>
  /\ response[1].speech =
       response[1].stations_speech[sHighSt] \o sSpace \o response[1].stations_speech[sClarkSt]

----------------------------------------------------------------------------
(* Properties of the diagnostics (SpecDebug) *)

\* an answer without its debug block
WithoutDebug(resp) == [k \in DOMAIN resp \ {"debug"} |-> resp[k]]

\* the answer of the run without diagnostics
PlainAnswer ==
  LET pq == parseQuery(plainReq(req))
      rs == resolveStops(pq.stationRaw, pq.stopIdsParam)
  IN  IF req.method = "OPTIONS" THEN [status |-> 204]
      ELSE IF rs.stopIdsSet = <<>> THEN [status |-> 400, error |-> "No stop_ids resolved"]
      ELSE answerOf(sortAndTrim(plainRun.stationsObj, pq.maxPerRoute), pq, rs, now)

\* C23: the answer to a request is, apart from its debug block, the answer to
\* the same request without show_debug and raw_dump on the same feeds at the
\* same time: same status, meta and stations, or meta, speech and
\* stations_speech; the debug block is there exactly when show_debug is set.
C23_DiagnosticsAdditive ==
  pc = "done" =>
    /\ WithoutDebug(response[1]) = WithoutDebug(PlainAnswer)
    /\ response[1].status = 200 => (response[1].debug # None <=> req.show_debug)
    /\ response[1].status = 200 => PlainAnswer.debug = None

\* a JSON answer with show_debug and raw_dump that holds an entry and the
\* detail, with the raw arrival, of a record without a time
C23_Witness ==
  /\ pc = "done" /\ response[1].status = 200
  /\ req.show_debug /\ req.raw_dump /\ req.format = None
  /\ response[1].debug # None
  /\ Len(response[1].debug[1].matched_no_time_details) = 1
  /\ response[1].debug[1].matched_no_time_details[1].arrival_raw = <<<<[time |-> None, delay |-> <<45>>]>>>>
  /\ totalEntries(response[1].stations) = 2
  /\ ret.matchedNoTimeDetails = <<>>

----------------------------------------------------------------------------
(* Properties of repeated records (SpecDup) *)

\* the group of route A at High St, empty when there is none yet
GroupA(sObj) ==
  IF sHighSt \in DOMAIN sObj /\ <<"A">> \in DOMAIN sObj[sHighSt]
  THEN sObj[sHighSt][<<"A">>] ELSE <<>>

\* the entries of a list that hold epoch e, in their order
WithEpoch(l, e) ==
  LET holds(a) == a.arrival_epoch = e
  IN  SelectSeq(l, holds)

\* l is the start of m
IsPrefix(l, m) == Len(l) <= Len(m) /\ SubSeq(m, 1, Len(l)) = l

\* C25: every matched record adds one entry at the end of its group, also when
\* an equal entry is there already, so that k equal records give k entries;
\* the feeds are taken in the order of the feed list; the trimming step
\* leaves min(k, cap) entries of a group of k and keeps the entries of equal
\* epoch in the order in which they were merged.
C25_DuplicatesKept ==
  [][/\ (pc' = "merge" /\ stats'.matchedNoTime + stats'.matchedWithTime
                           # stats.matchedNoTime + stats.matchedWithTime) =>
          /\ Len(GroupA(stationsObj')) = Len(GroupA(stationsObj)) + 1
          /\ IsPrefix(GroupA(stationsObj), GroupA(stationsObj'))
          /\ GroupA(stationsObj')[Len(GroupA(stationsObj'))].stop_id = arg'.stopId
          /\ stats'.matchedNoTime + stats'.matchedWithTime = Len(GroupA(stationsObj'))
     /\ (pc = "merge" /\ pc' = "merge") => loop'.feed >= loop.feed
     /\ (pc = "merge" /\ pc' = "done") =>
          /\ response'[1].status = 200
          /\ Len(GroupA(stationsObj')) = Min(Len(GroupA(stationsObj)), CapOf(req))
          /\ \A e \in {<<>>, <<now + 89>>} :
               IsPrefix(WithEpoch(GroupA(stationsObj'), e), WithEpoch(GroupA(stationsObj), e))
    ]_vars

\* the loop is in the second feed and the group holds one record twice
C25_Witness ==
  /\ pc = "merge" /\ loop.feed = 2 /\ loop.pos = "stu"
  /\ stats.totalEntities = 2 /\ stats.totalTripUpdates = 2
  /\ Len(GroupA(stationsObj)) = 2
  /\ GroupA(stationsObj)[1] = GroupA(stationsObj)[2]
  /\ GroupA(stationsObj)[1].arrival_epoch = <<now + 89>>

----------------------------------------------------------------------------
(* Properties of norm (SpecNorm) *)

\* C26: two writings of a name that differ in letter case, in the whitespace
\* between the words and around the name, and in Street for St, have the same
\* key under norm and the same base stop ids under resolveStops.
C26_NormInvariant ==
  pc = "returned" =>
    /\ ret.normA = ret.normB
    /\ ret.resolvedA.stopIdsSet = ret.resolvedB.stopIdsSet
    /\ (ret.resolvedA.unknownStations = <<>>) <=> (ret.resolvedB.unknownStations = <<>>)

\* "Clark St" and "clark   street" both resolve to 231
C26_Witness ==
  /\ pc = "returned"
  /\ arg.a = sClarkSt
  /\ arg.b = <<"c","l","a","r","k"," "," "," ","s","t","r","e","e","t">>
  /\ ret.normA = <<"c","l","a","r","k"," ","s","t">>
  /\ ret.resolvedA.stopIdsSet = <<s231>>
  /\ ret.resolvedB.stopIdsSet = <<s231>>

----------------------------------------------------------------------------
(* Properties of the handler of arrivals_by_station.js (SpecByStation) *)

\* C27 as stated: a feed whose fetch rejects or whose bytes do not decode adds
\* no arrival and does not end the run: the handler goes on with the next
\* feed and no answer is given at that step.
C27_AsStated ==
  [][(pc = "merge" /\ loop.pos = "feed" /\ loop.feed <= NumFeeds
        /\ results'[loop.feed] \in {"rejected", "malformed"}) =>
       /\ ret' = ret
       /\ pc' = "merge"
       /\ response' = None
       /\ loop'.feed = loop.feed + 1]_vars

----------------------------------------------------------------------------
(* Properties of the order of settlement (SpecSettle) *)

\* the entry that the record of feed k gives
EntryOfFeed(k) ==
  [ stop_id |-> IF k = 1 THEN sA40N ELSE IF k = 2 THEN sA40S ELSE sA40,
    route |-> sA,
    direction |-> IF k = 1 THEN <<"N">> ELSE IF k = 2 THEN <<"S">> ELSE <<>>,
    arrival_epoch |-> <<now + 89>>, in_min |-> <<1>>,
    status |-> "undefined", delay_seconds |-> <<>>, used_delay_as_time |-> FALSE,
    origin |-> "time" ]

\* the entries of the feeds that were fetched, in the order of the feed list
RECURSIVE InFeedOrder(_)
InFeedOrder(k) ==
  IF k = 0 THEN <<>>
  ELSE InFeedOrder(k - 1) \o (IF results[k] = "ok" THEN <<EntryOfFeed(k)>> ELSE <<>>)

\* C28: with the request, the time and the outcome of every fetch fixed, the
\* answer holds the entries of the fetched feeds in the order of the feed
\* list, cut to the cap, whatever the order in which the fetches settled.
C28_SettleOrderFree ==
  (pc = "done" /\ response[1].status = 200) =>
    response[1].stations =
      IF InFeedOrder(NumFeeds) = <<>> THEN <<>>
      ELSE (sHighSt :> (sA :> SubSeq(InFeedOrder(NumFeeds), 1,
                                      Min(Len(InFeedOrder(NumFeeds)), CapOf(req)))))

\* the second feed settled first; under a cap of 1 the entry of the first
\* feed is the one that is left
C28_Witness ==
  /\ pc = "done" /\ response[1].status = 200
  /\ CapOf(req) = 1
  /\ arg.order[1] = 2 /\ arg.order[2] = 1
  /\ results[1] = "ok" /\ results[2] = "ok"
  /\ response[1].stations[sHighSt][sA] = <<EntryOfFeed(1)>>

----------------------------------------------------------------------------
(* Properties of the counters (Spec) *)

\* the number of entries of all groups that are approaching, or timed
RECURSIVE CountIn(_, _, _)
CountIn(sObj, keys, approaching) ==
  IF keys = {} THEN 0
  ELSE LET k == CHOOSE x \in keys : TRUE
           l == sObj[k[1]][k[2]]
       IN  Cardinality({i \in 1..Len(l) : (l[i].arrival_epoch = <<>>) = approaching})
           + CountIn(sObj, keys \ {k}, approaching)
CountOf(sObj, approaching) ==
  CountIn(sObj, UNION {{<<s, r>> : r \in DOMAIN sObj[s]} : s \in DOMAIN sObj}, approaching)

\* the relations between the counters
Related(st) ==
  /\ st.matchedNoTime + st.matchedWithTime <= st.totalStopTimeUpdates
  /\ st.totalTripUpdates <= st.totalEntities
  /\ st.usedDelayAsTimeCount <= st.matchedWithTime

\* C29: after every step the counters are related (matched records are not
\* more than the records looked at, trip updates not more than entities,
\* fallbacks not more than timed matches); while the loop runs matchedNoTime
\* is the number of approaching entries and matchedWithTime the number of
\* timed entries pushed; the debug block holds the counters and so the same
\* relations; and no step decreases a counter.
C29_Counters ==
  [][/\ Related(stats')
     /\ pc' = "merge" =>
          /\ stats'.matchedNoTime = CountOf(stationsObj', TRUE)
          /\ stats'.matchedWithTime = CountOf(stationsObj', FALSE)
     /\ (pc' = "done" /\ response'[1].status = 200 /\ response'[1].debug # <<>>) =>
          LET d == response'[1].debug[1]
          IN  /\ d.matched_no_time = stats.matchedNoTime
              /\ d.matched_with_time = stats.matchedWithTime
              /\ d.used_delay_as_time_count = stats.usedDelayAsTimeCount
              /\ d.total_entities = stats.totalEntities
              /\ d.total_trip_updates = stats.totalTripUpdates
              /\ d.total_stop_time_updates = stats.totalStopTimeUpdates
              /\ d.matched_no_time + d.matched_with_time <= d.total_stop_time_updates
              /\ d.total_trip_updates <= d.total_entities
              /\ d.used_delay_as_time_count <= d.matched_with_time
     /\ \A f \in DOMAIN stats : stats'[f] >= stats[f]
    ]_vars

\* a debug block after a record without a time and one whose delay was taken
\* for the time, both in one trip update of two entities
C29_Witness ==
  /\ pc = "done" /\ response[1].status = 200 /\ response[1].debug # <<>>
  /\ response[1].debug[1].matched_no_time = 1
  /\ response[1].debug[1].matched_with_time = 1
  /\ response[1].debug[1].used_delay_as_time_count = 1
  /\ response[1].debug[1].total_stop_time_updates = 2
  /\ response[1].debug[1].total_trip_updates = 1
  /\ response[1].debug[1].total_entities = 2

----------------------------------------------------------------------------
(* Properties of a station named twice (SpecAlias) *)

\* the names of the request in the order given
AliasGiven(r) ==
  IF r.station = <<sClarkSt \o sComma \o sClarkStreet>> THEN <<sClarkSt, sClarkStreet>>
  ELSE IF r.station = <<sClarkStreet \o sComma \o sClarkSt>> THEN <<sClarkStreet, sClarkSt>>
  ELSE <<sClarkSt, sHighSt, sClarkStreet>>

\* the writing of Clark St that the request gives first, and the one it gives last
EarlierName(r) == AliasGiven(r)[1]
LastName(r) == AliasGiven(r)[Len(AliasGiven(r))]

\* C30: when a request names Clark St in two writings, the base id 231 is
\* mapped to the writing given last and to no other; every arrival at 231 is
\* in the group of that name and the writing given first has no group; both
\* writings are in meta.stations, in the order given.
C30_LastNameWins ==
  pc \in {"merge", "done"} =>
    /\ resolved[1].baseToStation[s231] = LastName(req)
    /\ resolved[1].stationsResolved = AliasGiven(req)
    /\ EarlierName(req) \notin DOMAIN stationsObj
    /\ \A st \in DOMAIN stationsObj : \A rt \in DOMAIN stationsObj[st] :
         \A i \in 1..Len(stationsObj[st][rt]) :
           Base(stationsObj[st][rt][i].stop_id) = s231 <=> st = LastName(req)
    /\ pc = "done" =>
         /\ response[1].meta.stations = <<AliasGiven(req)>>
         /\ EarlierName(req) \notin DOMAIN response[1].stations

\* Clark St is given first and clark street last: the two arrivals at 231 are
\* under clark street, and meta.stations holds both names
C30_Witness ==
  /\ pc = "done" /\ response[1].status = 200
  /\ response[1].meta.stations = << <<sClarkSt, sClarkStreet>> >>
  /\ DOMAIN response[1].stations = {sClarkStreet}
  /\ totalEntries(response[1].stations) = 2
  /\ sampleSet = <<s231, s231N, s231S>>

----------------------------------------------------------------------------
(* Properties of the entries by status and by fallback *)

\* C19 as stated: in the response every entry with a non-null arrival_epoch has
\* status "scheduled" and every entry with a null arrival_epoch has status
\* "approaching".  (Spec)
C19_StatusAsStated ==
  Answered =>
    \A e \in EntriesOf(response[1].stations) :
      /\ e.arrival_epoch # <<>> => e.status = "scheduled"
      /\ e.arrival_epoch = <<>> => e.status = "approaching"

\* the loop body has just run on the record whose arrival delay is 1700000000
FallbackStep ==
  /\ StepDone
  /\ FieldDelay(arg.arrival) = <<1700000000>>
  /\ ~NonZero(FieldTime(arg.arrival)) /\ ~NonZero(FieldTime(arg.departure))
  /\ Requested(arg.stopId)

\* the entries of the record's stop in all groups
EntriesAt(sid) == {e \in EntriesOf(stationsObj) : e.stop_id = sid}

\* C20 as stated: the record adds one entry with arrival_epoch 1700000000 and
\* the fallback flag, for every now and every window; one record alone gives a
\* response of exactly one entry.  (SpecFallback)
C20_AsStated ==
  /\ FallbackStep =>
       /\ totalEntries(stationsObj) = arg.entriesBefore + 1
       /\ \A e \in EntriesAt(arg.stopId) :
            e.arrival_epoch = <<1700000000>> /\ e.used_delay_as_time = TRUE
  /\ (Answered /\ stats.totalStopTimeUpdates = 1) =>
       totalEntries(response[1].stations) = 1

\* the epoch 1700000000 is inside the window of the request: not before now
\* under a window of 0, not before now - w under a window w > 0, and always
\* under a negative window
InWindow ==
  /\ WindowOf(req) = 0 => 1700000000 >= now
  /\ WindowOf(req) > 0 => 1700000000 >= now - WindowOf(req)

\* C20 amended: the record adds exactly one entry, with arrival_epoch
\* 1700000000, the fallback flag and in_min = max(0, floor((1700000000 - now) / 60)),
\* when 1700000000 is inside the window, and adds no entry when it is not; one
\* record alone gives a response of one entry, or of none.
C20_FallbackInWindow ==
  /\ FallbackStep =>
       /\ totalEntries(stationsObj) = arg.entriesBefore + (IF InWindow THEN 1 ELSE 0)
       /\ ~InWindow => stationsObj = <<>>
       /\ \A e \in EntriesAt(arg.stopId) :
            /\ e.arrival_epoch = <<1700000000>>
            /\ e.used_delay_as_time = TRUE
            /\ e.in_min = <<Max(0, (1700000000 - now) \div 60)>>
  /\ (Answered /\ stats.totalStopTimeUpdates = 1) =>
       totalEntries(response[1].stations) = (IF InWindow THEN 1 ELSE 0)

\* 30 seconds after the epoch of the record and with a lookback of 60 the
\* record gave the one entry there is
C20_Witness ==
  /\ FallbackStep
  /\ now = 1700000030
  /\ WindowOf(req) = 60
  /\ stats.totalStopTimeUpdates = 1
  /\ totalEntries(stationsObj) = 1
  /\ \E e \in EntriesAt(s231S) : e.arrival_epoch = <<1700000000>> /\ e.used_delay_as_time = TRUE

====
